---- MODULE Spec2Model ----
(***************************************************************************)
(* Model of license-fetcher's build-time resolution engine:                *)
(*   exec_cargo / exec_cargo_single      (build/metadata/command.rs)       *)
(*   walk_dependencies, package_list     (build/metadata/mod.rs)           *)
(*   populate_with_cache                 (build/cache/mod.rs)              *)
(*   populate_package_list_licenses      (build/fetch/mod.rs)              *)
(*   package_list_with_licenses          (build/mod.rs)                    *)
(*                                                                         *)
(* Strings are sequences of one-character strings so that formatting       *)
(* ("{name}-{version}"), the package-id regex and byte-wise ordering are    *)
(* computed rather than assumed.                                           *)
(***************************************************************************)
EXTENDS Integers, Sequences, FiniteSets, TLC

\* ------------------------------------------------------------------------
\* Bounds of the model
\* ------------------------------------------------------------------------
\* number of nodes of a resolve graph in the graph-walk specification
MaxNodes == 3
\* number of dependency edges of a resolve graph in the graph-walk specification
MaxEdges == 3
\* depth of recursion the thread stack can hold before it overflows
MaxStackDepth == 7

\* ------------------------------------------------------------------------
\* Option values and strings
\* ------------------------------------------------------------------------
None == <<"None">>

Some(x) == <<"Some", x>>

IsSome(o) == Len(o) = 2

Unwrap(o) == o[2]

\* the characters that occur in the model, in ascending byte order
ByteOrder ==
  << "#", "+", "-", ".", "/",
     "0", "1", "2", "3", "4", "5", "6", "7", "8", "9",
     ":", "@",
     "A", "B", "C", "D", "E", "F", "G", "H", "I", "J", "K", "L", "M",
     "N", "O", "P", "Q", "R", "S", "T", "U", "V", "W", "X", "Y", "Z",
     "_",
     "a", "b", "c", "d", "e", "f", "g", "h", "i", "j", "k", "l", "m",
     "n", "o", "p", "q", "r", "s", "t", "u", "v", "w", "x", "y", "z",
     "|" >>

ByteOf == [c \in {ByteOrder[i] : i \in 1..Len(ByteOrder)} |->
             CHOOSE i \in 1..Len(ByteOrder) : ByteOrder[i] = c]

Byte(c) == ByteOf[c]

Min(a, b) == IF a <= b THEN a ELSE b

\* `a < b` of Rust's String: lexicographic comparison of the bytes
StrLess(a, b) ==
  \E k \in 1..(Min(Len(a), Len(b)) + 1) :
     /\ \A j \in 1..(k - 1) : a[j] = b[j]
     /\ \/ k > Len(a) /\ k <= Len(b)
        \/ k <= Len(a) /\ k <= Len(b) /\ Byte(a[k]) < Byte(b[k])

\* ------------------------------------------------------------------------
\* walk_dependencies
\* ------------------------------------------------------------------------
\* the JSON null of a dependency kind: a normal dependency
NullKind == "null"

\* FnvHashMap::from_iter(dependencies.iter().map(|d| (&d.id, d))):
\* a later node with the same id replaces an earlier one
dependencies_hash_map(nodes) ==
  [id \in {nodes[i].id : i \in 1..Len(nodes)} |->
     nodes[CHOOSE i \in 1..Len(nodes) :
             /\ nodes[i].id = id
             /\ \A j \in (i + 1)..Len(nodes) : nodes[j].id # id]]

\* a mutant of IsNormalDep: every edge is followed, whatever its kind
IsNormalDep_AnyKind(dep) == TRUE

\* dep.dep_kinds.iter().map(|d| &d.kind).any(|o| o.is_none())
IsNormalDep(dep) == \E k \in 1..Len(dep.dep_kinds) : dep.dep_kinds[k] = NullKind

RECURSIVE walk_dependencies(_, _, _, _)
RECURSIVE walk_deps(_, _, _, _, _)
\* One call of walk_dependencies.  w is the walk state: the set
\* used_dependencies, whether the stack overflowed, and the ids the walk
\* recursed into although they already were in used_dependencies.
walk_dependencies(w, dependencies, root, depth) ==
  IF w.overflow THEN w
  ELSE IF depth > MaxStackDepth THEN [w EXCEPT !.overflow = TRUE]
  ELSE IF root \notin DOMAIN dependencies THEN w
  ELSE LET package == dependencies[root]
           entered == [w EXCEPT !.used = @ \cup {package.id},
                                !.revisited = IF package.id \in w.used
                                              THEN @ \cup {package.id} ELSE @]
       IN  walk_deps(entered, dependencies, package.deps, 1, depth)

\* the loop `for dep in package.deps.iter()` from its i-th element on
walk_deps(w, dependencies, deps, i, depth) ==
  IF i > Len(deps) \/ w.overflow THEN w
  ELSE LET after == IF IsNormalDep(deps[i])
                    THEN walk_dependencies(w, dependencies, deps[i].pkg, depth + 1)
                    ELSE w
       IN  walk_deps(after, dependencies, deps, i + 1, depth)

\* a mutant of WalkFromRoot: the root counts as used also when it is no node
WalkFromRoot_RootAlwaysUsed(nodes, root) ==
  LET walked == walk_dependencies([used |-> {}, overflow |-> FALSE, revisited |-> {}],
                                  dependencies_hash_map(nodes), root, 1)
  IN  [walked EXCEPT !.used = @ \cup {root}]

\* let mut used_packages = FnvHashSet::default(); walk_dependencies(...)
WalkFromRoot(nodes, root) ==
  walk_dependencies([used |-> {}, overflow |-> FALSE, revisited |-> {}],
                    dependencies_hash_map(nodes), root, 1)

\* ------------------------------------------------------------------------
\* Package ids, names and versions
\* ------------------------------------------------------------------------
Digits == {"0", "1", "2", "3", "4", "5", "6", "7", "8", "9"}

LowerLetters ==
  {"a", "b", "c", "d", "e", "f", "g", "h", "i", "j", "k", "l", "m",
   "n", "o", "p", "q", "r", "s", "t", "u", "v", "w", "x", "y", "z"}

\* the character classes of the regex  .*?[#|\/](?<name>[a-z\-\_]+)[@|#][\d\.]+
IsIdPrefixEnd(c) == c \in {"#", "|", "/"}

IsNameChar(c) == c \in LowerLetters \cup {"-", "_"}

IsNameEnd(c) == c \in {"@", "|", "#"}

IsVersionChar(c) == c \in Digits \cup {"."}

\* last position of the longest run of name characters that starts at i
\* (i - 1 when s[i] is no name character)
NameRunEnd(s, i) ==
  CHOOSE j \in (i - 1)..Len(s) :
     /\ \A k \in i..j : IsNameChar(s[k])
     /\ j = Len(s) \/ ~IsNameChar(s[j + 1])

\* the rest of the regex matches when the lazy prefix .*? ends before position i
IdMatchesAt(s, i) ==
  /\ IsIdPrefixEnd(s[i])
  /\ LET j == NameRunEnd(s, i + 1)
     IN  /\ j >= i + 1
         /\ j + 2 <= Len(s)
         /\ IsNameEnd(s[j + 1])
         /\ IsVersionChar(s[j + 2])

\* extract_package_name_from_id: Some(name) of the leftmost-first match, or
\* None for PackageNameParseError
extract_package_name_from_id(package_id) ==
  IF \E i \in 1..Len(package_id) : IdMatchesAt(package_id, i)
  THEN LET i == CHOOSE m \in 1..Len(package_id) :
                   /\ IdMatchesAt(package_id, m)
                   /\ \A n \in 1..(m - 1) : ~IdMatchesAt(package_id, n)
       IN  Some(SubSeq(package_id, i + 1, NameRunEnd(package_id, i + 1)))
  ELSE None

\* format!("{}-{}", package.name, package.version)
NameVersion(name, version) == name \o <<"-">> \o version

\* Package::cmp less-than: by name, then by version
PackageLess(p, q) ==
  \/ StrLess(p.name, q.name)
  \/ p.name = q.name /\ StrLess(p.version, q.version)

\* the `packages` entries (MetadataPackage) of the bounded metadata documents
MetaApp ==
  [id |-> <<"/", "a", "p", "p", "#", "0", ".", "1">>,
   name |-> <<"a", "p", "p">>, version |-> <<"0", ".", "1">>, license |-> Some("MIT")]

\* a registry package that has the name of the project
MetaAppDep ==
  [id |-> <<"r", "#", "a", "p", "p", "@", "0", ".", "0">>,
   name |-> <<"a", "p", "p">>, version |-> <<"0", ".", "0">>, license |-> None]

MetaLibA ==
  [id |-> <<"r", "#", "l", "i", "b", "a", "@", "1", ".", "0">>,
   name |-> <<"l", "i", "b", "a">>, version |-> <<"1", ".", "0">>, license |-> Some("Apache-2.0")]

\* liba 1.0 again, from a git source
MetaLibAGit ==
  [id |-> <<"g", "#", "l", "i", "b", "a", "@", "1", ".", "0">>,
   name |-> <<"l", "i", "b", "a">>, version |-> <<"1", ".", "0">>, license |-> None]

\* a package whose name the package-id regex cannot capture (it has digits)
MetaB64 ==
  [id |-> <<"r", "#", "b", "6", "4", "@", "0", ".", "2">>,
   name |-> <<"b", "6", "4">>, version |-> <<"0", ".", "2">>, license |-> Some("MIT")]

MetaPackages == {MetaApp, MetaAppDep, MetaLibA, MetaLibAGit, MetaB64}

\* ------------------------------------------------------------------------
\* error_stack reports
\* ------------------------------------------------------------------------
\* A Report is the sequence of the errors it carries; each error keeps the
\* directive it was attached to and the contexts it was wrapped in later.
NoDirective == "-"

Leaf(error, directive) == [error |-> error, directive |-> directive, contexts |-> <<>>]

\* Report::change_context
change_context(report, context) ==
  [i \in 1..Len(report) |-> [report[i] EXCEPT !.contexts = Append(@, context)]]

\* a mutant of extend_one: the report keeps only the error that comes last
extend_one_KeepLast(report, other) == other

\* Report::extend_one
extend_one(report, other) == report \o other

\* ------------------------------------------------------------------------
\* Metadata documents and package_list_from_cargo_metadata
\* ------------------------------------------------------------------------
\* number of entries of `packages` in a bounded metadata document
MaxPkgs == 3

\* the value a thread function returns: Ok(val), Err(err), a panic, or the
\* abort of the process on a stack overflow
Ok(val) == [tag |-> "Ok", val |-> val, err |-> <<>>]

\* the value part of a result that carries none: no packages, no names
NoVal(t) == IF t = "tree" THEN {} ELSE <<>>

Err(t, report) == [tag |-> "Err", val |-> NoVal(t), err |-> report]

Panic(t) == [tag |-> "Panic", val |-> NoVal(t), err |-> <<>>]

Abort == [tag |-> "Abort", val |-> <<>>, err |-> <<>>]

Running(t) == [tag |-> "Running", val |-> NoVal(t), err |-> <<>>]

\* is_root of the closure in package_list_from_cargo_metadata
IsRoot(package, root_package_name) == package.name = root_package_name

\* the Package built for one entry of `packages`
ToPackage(package, root_package_name) ==
  [name |-> package.name,
   version |-> package.version,
   license_identifier |-> package.license,
   license_text |-> None,
   restored_from_cache |-> FALSE,
   is_root_pkg |-> IsRoot(package, root_package_name),
   name_version |-> NameVersion(package.name, package.version)]

\* package_list_from_cargo_metadata after exec_cargo returned the document
package_list_from_cargo_metadata(doc) ==
  IF ~doc.valid THEN Err("metadata", <<Leaf("PkgListFromCargoMetadataError::ParseJson", NoDirective)>>)
  ELSE IF ~IsSome(doc.root)
       THEN Err("metadata", <<Leaf("PkgListFromCargoMetadataError::ParseJson", NoDirective)>>)
  ELSE LET package_id == Unwrap(doc.root)
           walked == WalkFromRoot(doc.nodes, package_id)
           root_package_name == extract_package_name_from_id(package_id)
           used == SelectSeq(doc.packages, LAMBDA e : e.id \in walked.used)
       IN  IF walked.overflow THEN Abort
           ELSE IF ~IsSome(root_package_name)
                THEN Err("metadata", <<Leaf("PkgListFromCargoMetadataError::PackageNameParseError", NoDirective)>>)
           ELSE Ok([i \in 1..Len(used) |-> ToPackage(used[i], Unwrap(root_package_name))])

\* sequences of distinct elements of S with at most n elements
RECURSIVE DistinctSeqs(_, _)
DistinctSeqs(S, n) ==
  IF n = 0 THEN {<<>>}
  ELSE LET shorter == DistinctSeqs(S, n - 1)
           longest == {r \in shorter : Len(r) = n - 1}
       IN  shorter \cup
           {Append(e[1], e[2]) :
              e \in {f \in longest \X S : \A i \in 1..Len(f[1]) : f[1][i] # f[2]}}

GraphShapes == {"none", "all_normal", "last_dev", "chain", "cycle", "no_root_node"}

\* the other packages of the document, in document order
OthersOf(ps, root) == SelectSeq(ps, LAMBDA e : Some(e.id) # root)

Edge(target, kinds) == [pkg |-> target, dep_kinds |-> kinds]

\* resolve.nodes: one node per package of the document; the edges follow
\* the shape (with "no_root_node" the node of the root is left out)
ShapeNodes(ps, root, shape) ==
  LET others == OthersOf(ps, root)
      n == Len(others)
      RootDeps ==
        CASE shape = "none" -> <<>>
          [] shape = "all_normal" -> [k \in 1..n |-> Edge(others[k].id, <<NullKind>>)]
          [] shape = "last_dev" ->
               [k \in 1..n |-> Edge(others[k].id,
                                    IF k = n THEN <<"dev">> ELSE <<"build", NullKind>>)]
          [] OTHER -> IF n = 0 THEN <<>> ELSE <<Edge(others[1].id, <<NullKind>>)>>
      OtherDeps(k) ==
        CASE shape \in {"chain", "cycle"} /\ k < n -> <<Edge(others[k + 1].id, <<NullKind>>)>>
          [] shape = "cycle" /\ k = n /\ IsSome(root) -> <<Edge(Unwrap(root), <<NullKind>>)>>
          [] OTHER -> <<>>
      IndexInOthers(e) == CHOOSE k \in 1..n : others[k] = e
      nodes == [i \in 1..Len(ps) |->
                  [id |-> ps[i].id,
                   deps |-> IF Some(ps[i].id) = root THEN RootDeps
                            ELSE OtherDeps(IndexInOthers(ps[i]))]]
  IN  IF shape = "no_root_node" THEN SelectSeq(nodes, LAMBDA node : Some(node.id) # root)
      ELSE nodes

InvalidDoc == [valid |-> FALSE, packages |-> <<>>, root |-> None, nodes |-> <<>>]

\* the outputs of `cargo metadata` of the model
MetadataDocs ==
  {InvalidDoc} \cup
  {[valid |-> TRUE, packages |-> ps, root |-> root, nodes |-> ShapeNodes(ps, root, shape)] :
     ps \in DistinctSeqs(MetaPackages, MaxPkgs),
     root \in {None} \cup {Some(m.id) : m \in MetaPackages},
     shape \in GraphShapes}

\* ------------------------------------------------------------------------
\* The output of `cargo tree` and used_pkg_names_from_cargo_tree
\* ------------------------------------------------------------------------
IsWhitespace(c) == c \in {" ", "\t"}

\* str::trim
Trim(l) ==
  IF \A i \in 1..Len(l) : IsWhitespace(l[i]) THEN <<>>
  ELSE LET first == CHOOSE i \in 1..Len(l) :
                       ~IsWhitespace(l[i]) /\ \A j \in 1..(i - 1) : IsWhitespace(l[j])
           last == CHOOSE i \in 1..Len(l) :
                       ~IsWhitespace(l[i]) /\ \A j \in (i + 1)..Len(l) : IsWhitespace(l[j])
       IN  SubSeq(l, first, last)

\* e.split(" ").next(): the text before the first space
FirstField(e) ==
  IF \E i \in 1..Len(e) : e[i] = " "
  THEN SubSeq(e, 1, (CHOOSE i \in 1..Len(e) : e[i] = " " /\ \A j \in 1..(i - 1) : e[j] # " ") - 1)
  ELSE e

\* used_pkg_names_from_cargo_tree after exec_cargo returned the output
used_pkg_names_from_cargo_tree(stdout) ==
  IF ~stdout.utf8 THEN Err("tree", <<Leaf("PkgListFromCargoMetadataError::ParseString", NoDirective)>>)
  ELSE LET trimmed == [i \in 1..Len(stdout.lines) |-> Trim(stdout.lines[i])]
       IN  Ok({FirstField(trimmed[i]) : i \in {k \in 1..Len(trimmed) : trimmed[k] # <<>>}})

\* the lines the outputs of `cargo tree` of the model are made of
TreeLineSeq ==
  << <<"a", "p", "p", " ", "v", "0", ".", "1", " ", "(", "/", "a", "p", "p", ")">>,
     <<"l", "i", "b", "a", " ", "v", "1", ".", "0">>,
     <<" ", " ">>,
     <<"b", "6", "4", " ", "v", "0", ".", "2", " ", "(", "*", ")">>,
     <<"l", "i", "b", "a", " ", "v", "1", ".", "0", " ">> >>

\* the outputs of `cargo tree` of the model: any selection of the lines, or
\* bytes that are not UTF-8
TreeOutputs ==
  {[utf8 |-> FALSE, lines |-> <<>>]} \cup
  {[utf8 |-> TRUE, lines |-> SelectSeq(TreeLineSeq, LAMBDA l : l \in chosen)] :
     chosen \in SUBSET {TreeLineSeq[i] : i \in 1..Len(TreeLineSeq)}}

\* ------------------------------------------------------------------------
\* Folders and license_text_from_folder
\* ------------------------------------------------------------------------
UpperSeq ==
  <<"A", "B", "C", "D", "E", "F", "G", "H", "I", "J", "K", "L", "M",
    "N", "O", "P", "Q", "R", "S", "T", "U", "V", "W", "X", "Y", "Z">>

LowerSeq ==
  <<"a", "b", "c", "d", "e", "f", "g", "h", "i", "j", "k", "l", "m",
    "n", "o", "p", "q", "r", "s", "t", "u", "v", "w", "x", "y", "z">>

ToLowerChar(c) ==
  IF \E i \in 1..Len(UpperSeq) : UpperSeq[i] = c
  THEN LowerSeq[CHOOSE i \in 1..Len(UpperSeq) : UpperSeq[i] = c]
  ELSE c

ToLower(str) == [i \in 1..Len(str) |-> ToLowerChar(str[i])]

Contains(str, word) ==
  \E i \in 1..(Len(str) - Len(word) + 1) : SubSeq(str, i, i + Len(word) - 1) = word

LicenseWords ==
  { <<"l", "i", "c", "e", "n", "s", "e">>,
    <<"c", "o", "p", "y", "i", "n", "g">>,
    <<"a", "u", "t", "h", "o", "r", "s">>,
    <<"n", "o", "t", "i", "c", "e">>,
    <<"e", "u", "l", "a">> }

\* LICENSE_FILE_NAME_REGEX: (?i).*(license|copying|authors|notice|eula).*
IsLicenseFileName(file_name) ==
  LET lower == ToLower(file_name)
  IN  \E word \in LicenseWords : Contains(lower, word)

\* the entries of a directory that lead to candidate files: a matching
\* directory stands for its own matching entries (none when it cannot be read)
RECURSIVE Candidates(_, _)
Candidates(entries, i) ==
  IF i > Len(entries) THEN <<>>
  ELSE LET e == entries[i]
           here == IF ~IsLicenseFileName(e.file_name) THEN <<>>
                   ELSE IF e.kind = "dir"
                        THEN IF e.readable
                             THEN SelectSeq(e.children,
                                            LAMBDA c : IsLicenseFileName(c.file_name))
                             ELSE <<>>
                   ELSE <<e>>
       IN  here \o Candidates(entries, i + 1)

\* the fold: every file that can be read as text is appended, followed by "\n\n"
RECURSIVE FoldTexts(_, _)
FoldTexts(files, i) ==
  IF i > Len(files) THEN <<>>
  ELSE (IF files[i].kind = "file" /\ files[i].readable
        THEN <<files[i].content, "\n\n">> ELSE <<>>) \o FoldTexts(files, i + 1)

\* license_text_from_folder: Err when the folder cannot be read, else
\* Ok(None) or Ok(Some(text)); a text is the sequence of its pieces
license_text_from_folder(folder) ==
  IF ~folder.readable THEN [tag |-> "Err", val |-> None]
  ELSE LET license_text == FoldTexts(Candidates(folder.entries, 1), 1)
       IN  IF license_text = <<>> THEN [tag |-> "Ok", val |-> None]
           ELSE [tag |-> "Ok", val |-> Some(license_text)]

File(file_name, content) ==
  [file_name |-> file_name, kind |-> "file", readable |-> TRUE, content |-> content,
   children |-> <<>>]

\* a file that is not valid text
BinaryFile(file_name) ==
  [file_name |-> file_name, kind |-> "file", readable |-> FALSE, content |-> "",
   children |-> <<>>]

Dir(file_name, readable, children) ==
  [file_name |-> file_name, kind |-> "dir", readable |-> readable, content |-> "",
   children |-> children]

Folder(entries) == [readable |-> TRUE, entries |-> entries]

UnreadableFolder == [readable |-> FALSE, entries |-> <<>>]

FileLicenseMit == File(<<"L", "I", "C", "E", "N", "S", "E", "-", "M", "I", "T">>, "MIT text")

FileNotice == File(<<"N", "O", "T", "I", "C", "E", ".", "t", "x", "t">>, "notice text")

FileReadme == File(<<"R", "E", "A", "D", "M", "E", ".", "m", "d">>, "readme text")

FileCopying == File(<<"c", "o", "p", "y", "i", "n", "g">>, "GPL text")

FolderMit == Folder(<<FileReadme, FileLicenseMit>>)

FolderMitNotice == Folder(<<FileLicenseMit, FileReadme, FileNotice>>)

FolderReadme == Folder(<<FileReadme>>)

\* a folder `licenses` with one license file and one other file
FolderLicensesDir ==
  Folder(<<Dir(<<"l", "i", "c", "e", "n", "s", "e", "s">>, TRUE, <<FileCopying, FileReadme>>),
           BinaryFile(<<"E", "U", "L", "A">>)>>)

\* ------------------------------------------------------------------------
\* The graph-walk specification: walk_dependencies on bounded resolve graphs
\* ------------------------------------------------------------------------
VARIABLES w_pc, w_nodes, w_root, w_result

walk_vars == <<w_pc, w_nodes, w_root, w_result>>

\* the variables of the specifications of license_text_from_folder and of
\* PackageList::from_encoded
VARIABLES f_pc, f_folder, f_result, d_pc, d_list, d_bytes, d_result

folder_vars == <<f_pc, f_folder, f_result>>

codec_vars == <<d_pc, d_list, d_bytes, d_result>>

\* the variables of the specification of a build that is run again on the
\* cache it persisted
VARIABLES b_pc, b_in, b_cache, b_results

rebuild_vars == <<b_pc, b_in, b_cache, b_results>>

\* the variables of the specification of used_pkg_names_from_cargo_tree
VARIABLES u_pc, u_stdout, u_result

tree_vars == <<u_pc, u_stdout, u_result>>

pure_vars == <<walk_vars, folder_vars, codec_vars, rebuild_vars, tree_vars>>

NodeNames == <<"n1", "n2", "n3", "n4", "n5", "n6">>

\* ids of the nodes of the graph, in the order of resolve.nodes
NodeSeq == SubSeq(NodeNames, 1, MaxNodes)

NodeIds == {NodeSeq[i] : i \in 1..Len(NodeSeq)}

\* an id that no node of the graph has
MissingId == "nx"

TargetSeq == NodeSeq \o <<MissingId>>

\* the dep_kinds lists an edge of the bounded graphs can carry
KindLists == {<<NullKind>>, <<"dev">>, <<"build", NullKind>>}

EdgePairs == {<<a, b>> : a \in NodeIds, b \in NodeIds \cup {MissingId}} \ {<<a, a>> : a \in NodeIds}

\* the edges of a bounded graph: a function from at most MaxEdges pairs to dep_kinds
EdgeMaps ==
  UNION {[E -> KindLists] : E \in {F \in SUBSET EdgePairs : Cardinality(F) <= MaxEdges}}

\* resolve.nodes of the graph with the edges g
NodesOf(g) ==
  [i \in 1..Len(NodeSeq) |->
     LET a == NodeSeq[i]
         targets == SelectSeq(TargetSeq, LAMBDA b : <<a, b>> \in DOMAIN g)
     IN  [id |-> a,
          deps |-> [k \in 1..Len(targets) |->
                      [pkg |-> targets[k], dep_kinds |-> g[<<a, targets[k]>>]]]]]

EmptyWalk == [used |-> {}, overflow |-> FALSE, revisited |-> {}]

\* ------------------------------------------------------------------------
\* State of a resolution run (package_list_with_licenses)
\* ------------------------------------------------------------------------
VARIABLES
  cargo_directives,   \* config.metadata_config.cargo_directives
  debug_assertions,   \* whether debug_assert! is compiled in
  cfg_cache,          \* config.cache
  t_pc,               \* per fetch thread: "exec" while in exec_cargo, then "done", "joined"
  t_pos,              \* per fetch thread: number of directives the loop of exec_cargo has taken
  t_log,              \* per fetch thread: the cargo processes run so far, in order
  t_err,              \* per fetch thread: the local `err` of exec_cargo (<<>> for None)
  t_exec,             \* per fetch thread: what exec_cargo returned
  t_res,              \* per fetch thread: what the thread function returned
  root_in_graph,      \* whether the root id of the metadata was a node of its graph
  pc,                 \* position of the run
  joined,             \* the outcome of each fetch as package_list saw it at the join
  package_list,       \* the local `package_list` of package_list_with_licenses
  root_pos,           \* the local `root_pos` of package_list_with_licenses (from 1; 0 unset)
  out_dir,            \* OUT_DIR and the cache file in it as the cache step found them
  registry_src,       \* <cargo_home>/registry/src as the license scan found it
  manifest_dir,       \* config.metadata_config.manifest_dir as the last step found it
  result              \* what package_list_with_licenses returned

config_vars == <<cargo_directives, debug_assertions, cfg_cache>>

thread_vars == <<t_pc, t_pos, t_log, t_err, t_exec, t_res, root_in_graph>>

run_vars == <<pc, joined, package_list, root_pos, out_dir, registry_src, manifest_dir, result>>

Threads == {"metadata", "tree"}

NoExec == [tag |-> "None", run |-> 0, err |-> <<>>]

NoResult == [tag |-> "None", error |-> "", report |-> <<>>]

\* the cache step has not looked at OUT_DIR (yet, or any more)
NoOutDir ==
  [looked |-> FALSE, out_dir_set |-> FALSE, try_exists |-> "no", is_file |-> FALSE,
   readable |-> FALSE, bytes |-> <<>>]

\* the license scan has not looked at the registry (yet, or any more)
NoRegistry == [state |-> "None", roots |-> <<>>]

\* nothing of a resolution run has happened
\* the manifest directory before the run has looked at it
NoManifestDir == [looked |-> FALSE, folder |-> UnreadableFolder]

RunIdle ==
  /\ t_pc = [t \in Threads |-> "exec"]
  /\ t_pos = [t \in Threads |-> 0]
  /\ t_log = [t \in Threads |-> <<>>]
  /\ t_err = [t \in Threads |-> <<>>]
  /\ t_exec = [t \in Threads |-> NoExec]
  /\ t_res = [t \in Threads |-> Running(t)]
  /\ root_in_graph = "unknown"
  /\ pc = "fetch"
  /\ joined = [t \in Threads |-> "Running"]
  /\ package_list = <<>>
  /\ root_pos = 0
  /\ out_dir = NoOutDir
  /\ registry_src = NoRegistry
  /\ manifest_dir = NoManifestDir
  /\ result = NoResult

WalkIdle ==
  /\ w_pc = "idle"
  /\ w_nodes = <<>>
  /\ w_root = MissingId
  /\ w_result = EmptyWalk

\* no folder is being scanned
FolderIdle ==
  /\ f_pc = "idle"
  /\ f_folder = UnreadableFolder
  /\ f_result = [tag |-> "None", val |-> None]

\* no output of `cargo tree` is being read
TreeIdle ==
  /\ u_pc = "idle"
  /\ u_stdout = [utf8 |-> FALSE, lines |-> <<>>]
  /\ u_result = Running("tree")

\* no build is being repeated
RebuildIdle ==
  /\ b_pc = "idle"
  /\ b_in = [list |-> <<>>, registry |-> NoRegistry, folder |-> UnreadableFolder]
  /\ b_cache = NoOutDir
  /\ b_results = <<>>

\* no buffer is being decoded
CodecIdle ==
  /\ d_pc = "idle"
  /\ d_list = [given |-> FALSE, list |-> <<>>]
  /\ d_bytes = <<>>
  /\ d_result = [tag |-> "None", val |-> <<>>, error |-> ""]

WalkInit ==
  /\ RebuildIdle
  /\ TreeIdle
  /\ FolderIdle
  /\ CodecIdle
  /\ w_pc = "start"
  /\ w_nodes \in {NodesOf(g) : g \in EdgeMaps}
  /\ w_root \in NodeIds \cup {MissingId}
  /\ w_result = EmptyWalk
  /\ cargo_directives = <<"Default">>
  /\ debug_assertions = FALSE
  /\ cfg_cache = FALSE
  /\ RunIdle

\* walk_dependencies(&mut used_packages, &dependencies_hash_map, &package_id)
Walk ==
  /\ w_pc = "start"
  /\ w_result' = WalkFromRoot(w_nodes, w_root)
  /\ w_pc' = "done"
  /\ UNCHANGED <<w_nodes, w_root>>
  /\ UNCHANGED <<folder_vars, codec_vars, rebuild_vars, tree_vars, config_vars, thread_vars, run_vars>>

vars == <<pure_vars, config_vars, thread_vars, run_vars>>

WalkNext == Walk

SpecWalk == WalkInit /\ [][WalkNext]_vars

\* ---- vocabulary of the claims about the walk ----
NodeIdsOf(nodes) == {nodes[i].id : i \in 1..Len(nodes)}

\* b is the target of an edge of a that has a null kind, and b is a node
NormalEdge(nodes, a, b) ==
  \E i \in 1..Len(nodes) :
     /\ nodes[i].id = a
     /\ \E k \in 1..Len(nodes[i].deps) :
           /\ nodes[i].deps[k].pkg = b
           /\ \E m \in 1..Len(nodes[i].deps[k].dep_kinds) :
                 nodes[i].deps[k].dep_kinds[m] = NullKind
     /\ b \in NodeIdsOf(nodes)

\* b is the target of some edge of a, of any kind
AnyEdge(nodes, a, b) ==
  \E i \in 1..Len(nodes) :
     /\ nodes[i].id = a
     /\ \E k \in 1..Len(nodes[i].deps) : nodes[i].deps[k].pkg = b
     /\ b \in NodeIdsOf(nodes)

RECURSIVE NormalClosure(_, _)
\* least set that contains S and is closed under normal edges
NormalClosure(nodes, S) ==
  LET T == S \cup {b \in NodeIdsOf(nodes) : \E a \in S : NormalEdge(nodes, a, b)}
  IN  IF T = S THEN S ELSE NormalClosure(nodes, T)

RECURSIVE AnyClosure(_, _)
AnyClosure(nodes, S) ==
  LET T == S \cup {b \in NodeIdsOf(nodes) : \E a \in S : AnyEdge(nodes, a, b)}
  IN  IF T = S THEN S ELSE AnyClosure(nodes, T)

\* no node reaches itself over normal edges
AcyclicNormal(nodes) ==
  \A a \in NodeIdsOf(nodes) :
     a \notin NormalClosure(nodes, {b \in NodeIdsOf(nodes) : NormalEdge(nodes, a, b)})

\* C3: on an acyclic resolve graph that contains the root, walk_dependencies
\* returns exactly the ids reachable from the root over edges with a null
\* kind; ids reachable only over dev/build edges and edge targets that are
\* not nodes are not in the result.
C3_WalkIsNormalReachability ==
  (w_pc = "done" /\ AcyclicNormal(w_nodes) /\ w_root \in NodeIdsOf(w_nodes))
    => /\ ~w_result.overflow
       /\ w_result.used = NormalClosure(w_nodes, {w_root})
       /\ MissingId \notin w_result.used

\* a finished walk of an acyclic graph that left out a node reachable over a
\* dev edge and met an edge to an id that is not a node
C3_Witness ==
  /\ w_pc = "done"
  /\ AcyclicNormal(w_nodes)
  /\ w_root \in NodeIdsOf(w_nodes)
  /\ Cardinality(w_result.used) >= 2
  /\ AnyClosure(w_nodes, {w_root}) \ w_result.used # {}
  /\ \E i \in 1..Len(w_nodes) : \E k \in 1..Len(w_nodes[i].deps) :
        /\ w_nodes[i].id \in w_result.used
        /\ w_nodes[i].deps[k].pkg = MissingId
        /\ IsNormalDep(w_nodes[i].deps[k])

\* C4 (as claimed): walk_dependencies terminates on every finite resolve
\* graph, cycles on normal edges included (the recursion never runs until
\* the stack overflows).
C4_WalkTerminates == w_pc = "done" => ~w_result.overflow

\* ------------------------------------------------------------------------
\* exec_cargo: the two fetch threads of package_list
\* ------------------------------------------------------------------------
\* number of directives of a configured list in the exec_cargo specification
MaxDirectives == 3

Directives == {"Default", "Locked", "Frozen"}

\* the argument exec_cargo_single appends for a directive ("" for none)
DirectiveFlag(directive) ==
  CASE directive = "Default" -> ""
    [] directive = "Locked" -> "--locked"
    [] directive = "Frozen" -> "--frozen"

\* how one run of cargo ends: exit status 0, the process could not be
\* started, or a non-zero exit status
ProcessOutcomes == {"Ok", "FailedToExecute", "FailedExecution"}

\* the error exec_cargo_single returns for a failed run: the io::Error of
\* `command.output()` under the context FailedToExecute, or a new report of
\* FailedExecution; both carry the directive as an attachment
SingleError(outcome, directive) ==
  IF outcome = "FailedToExecute"
  THEN change_context(<<Leaf("io::Error", directive)>>, "ExecCargoError::FailedToExecute")
  ELSE <<Leaf("ExecCargoError::FailedExecution", directive)>>

\* a mutant of ReturnsOutput: the loop goes on after a successful run
ReturnsOutput_Never(outcome) == FALSE

\* `Ok(_) => return result_single`
ReturnsOutput(outcome) == outcome = "Ok"

\* `None => err = Some(e), Some(err) => err.extend_one(e)`
AccumulateErr(err, e) == IF err = <<>> THEN e ELSE extend_one(err, e)

\* a mutant of FinalErr: without a collected error the report stays empty
FinalErr_NoFallback(err) == err

\* `err.unwrap_or_else(|| Report::new(ExecCargoError::FailedExecution))`
FinalErr(err) ==
  IF err = <<>> THEN <<Leaf("ExecCargoError::FailedExecution", NoDirective)>> ELSE err

\* what package_list_from_cargo_metadata returns on the outputs of `cargo metadata`
MetadataResults == {package_list_from_cargo_metadata(doc) : doc \in MetadataDocs}

\* what used_pkg_names_from_cargo_tree returns on the outputs of `cargo tree`
TreeResults == {used_pkg_names_from_cargo_tree(stdout) : stdout \in TreeOutputs}

\* what package_list_from_cargo_metadata returns, with whether resolve.root
\* was the id of a node of the document
MetadataOutcomes ==
  LET RootInGraph(doc) ==
        IF ~IsSome(doc.root) THEN "undeclared"
        ELSE IF \E i \in 1..Len(doc.nodes) : doc.nodes[i].id = Unwrap(doc.root) THEN "yes"
        ELSE "no"
  IN  {[res |-> package_list_from_cargo_metadata(doc), root_in_graph |-> RootInGraph(doc)] :
         doc \in MetadataDocs}

\* what the thread function can return when its command succeeded
ThreadBodyResults(t) ==
  IF t = "metadata" THEN MetadataOutcomes
  ELSE {[res |-> res, root_in_graph |-> "unknown"] : res \in TreeResults}

\* what the thread function does with the error of exec_cargo
ThreadFailure(t, err) == Err(t, change_context(err, "PkgListFromCargoMetadataError::ExecCargo"))

\* One iteration of the loop of exec_cargo in thread t: exec_cargo_single
\* runs cargo with the next directive; exec_cargo returns the output of a
\* successful run, goes on after a failed one, and returns the collected
\* error after the last directive.
ExecCargoSingle(t) ==
  /\ pc = "fetch"
  /\ t_pc[t] = "exec"
  /\ t_pos[t] < Len(cargo_directives)
  /\ LET directive == cargo_directives[t_pos[t] + 1]
         last == t_pos[t] + 1 = Len(cargo_directives)
     IN  \E outcome \in ProcessOutcomes :
           LET err == IF outcome = "Ok" THEN t_err[t]
                      ELSE AccumulateErr(t_err[t], SingleError(outcome, directive))
           IN  /\ t_pos' = [t_pos EXCEPT ![t] = @ + 1]
               /\ t_log' = [t_log EXCEPT ![t] =
                              Append(@, [directive |-> directive,
                                         flag |-> DirectiveFlag(directive),
                                         outcome |-> outcome])]
               /\ t_err' = [t_err EXCEPT ![t] = err]
               /\ \/ /\ ReturnsOutput(outcome)
                     /\ t_exec' = [t_exec EXCEPT ![t] =
                                     [tag |-> "Ok", run |-> t_pos[t] + 1, err |-> <<>>]]
                     /\ t_pc' = [t_pc EXCEPT ![t] = "returned"]
                  \/ /\ ~ReturnsOutput(outcome)
                     /\ ~last
                     /\ UNCHANGED <<t_exec, t_pc>>
                  \/ /\ ~ReturnsOutput(outcome)
                     /\ last
                     /\ t_exec' = [t_exec EXCEPT ![t] =
                                     [tag |-> "Err", run |-> 0, err |-> FinalErr(err)]]
                     /\ t_pc' = [t_pc EXCEPT ![t] = "returned"]
  /\ UNCHANGED <<config_vars, pure_vars, t_res, root_in_graph, run_vars>>

\* exec_cargo with an empty directive list: the debug assertion panics, or
\* the loop is skipped and the fallback error is returned
ExecCargoNoDirective(t) ==
  /\ pc = "fetch"
  /\ t_pc[t] = "exec"
  /\ Len(cargo_directives) = 0
  /\ \/ /\ debug_assertions
        /\ t_exec' = [t_exec EXCEPT ![t] = [tag |-> "Panic", run |-> 0, err |-> <<>>]]
     \/ /\ ~debug_assertions
        /\ t_exec' = [t_exec EXCEPT ![t] =
                        [tag |-> "Err", run |-> 0, err |-> FinalErr(t_err[t])]]
  /\ t_pc' = [t_pc EXCEPT ![t] = "returned"]
  /\ UNCHANGED <<config_vars, pure_vars, t_pos, t_log, t_err, t_res, root_in_graph, run_vars>>

\* The thread function after exec_cargo returned: it decodes the output
\* (package_list_from_cargo_metadata, used_pkg_names_from_cargo_tree) or
\* passes the error on; a panic unwinds the thread, a stack overflow in the
\* graph walk aborts the process.
ThreadFinish(t) ==
  /\ pc = "fetch"
  /\ t_pc[t] = "returned"
  /\ \/ /\ t_exec[t].tag = "Ok"
        /\ \E out \in ThreadBodyResults(t) :
              /\ t_res' = [t_res EXCEPT ![t] = out.res]
              /\ root_in_graph' = IF t = "metadata" THEN out.root_in_graph ELSE root_in_graph
              /\ pc' = IF out.res.tag = "Abort" THEN "aborted" ELSE pc
     \/ /\ t_exec[t].tag = "Err"
        /\ t_res' = [t_res EXCEPT ![t] = ThreadFailure(t, t_exec[t].err)]
        /\ pc' = pc
        /\ root_in_graph' = root_in_graph
     \/ /\ t_exec[t].tag = "Panic"
        /\ t_res' = [t_res EXCEPT ![t] = Panic(t)]
        /\ pc' = pc
        /\ root_in_graph' = root_in_graph
  /\ t_pc' = [t_pc EXCEPT ![t] = "done"]
  /\ t_pos' = [t_pos EXCEPT ![t] = 0]
  /\ t_log' = [t_log EXCEPT ![t] = <<>>]
  /\ t_err' = [t_err EXCEPT ![t] = <<>>]
  /\ t_exec' = [t_exec EXCEPT ![t] = NoExec]
  /\ UNCHANGED <<config_vars, pure_vars, joined, package_list, root_pos, manifest_dir, out_dir, registry_src, result>>

\* ------------------------------------------------------------------------
\* package_list: the join of the two fetches and the reconciliation
\* ------------------------------------------------------------------------
\* a mutant of CombinedError: only the metadata failure is reported
CombinedError_MetadataOnly(pkgs_err, used_pkgs_err) == pkgs_err

\* `pkgs_err.extend_one(used_pkgs_err); return Err(pkgs_err)`
CombinedError(pkgs_err, used_pkgs_err) == extend_one(pkgs_err, used_pkgs_err)

\* a mutant of filtered_packages: the packages of the graph walk are all kept
filtered_packages_Unfiltered(packages, used_package_names) == packages

\* `packages.into_iter().filter(|e| used_package_names.contains(&e.name))`
filtered_packages(packages, used_package_names) ==
  SelectSeq(packages, LAMBDA e : e.name \in used_package_names)

ThreadError == <<Leaf("PkgListFromCargoMetadataError::Thread", NoDirective)>>

\* a mutant of has_root_package: the list is not looked at
has_root_package_Unchecked(filtered) == TRUE

\* `filtered_packages.iter().any(|e| e.is_root_pkg)`
has_root_package(filtered) == \E i \in 1..Len(filtered) : filtered[i].is_root_pkg

\* a mutant of package_list_join: a failed metadata fetch yields an empty list
package_list_join_EmptyOnFailure(packages, used_packages) ==
  IF packages.tag = "Panic" \/ used_packages.tag = "Panic" THEN Err("metadata", ThreadError)
  ELSE IF packages.tag = "Err" /\ used_packages.tag = "Err"
       THEN Err("metadata", CombinedError(packages.err, used_packages.err))
  ELSE IF packages.tag = "Err" THEN Ok(<<>>)
  ELSE IF used_packages.tag = "Err" THEN Err("metadata", used_packages.err)
  ELSE Ok(filtered_packages(packages.val, used_packages.val))

\* package_list from the two joins on: packages and used_packages are the
\* values the threads returned
package_list_join(packages, used_packages) ==
  IF packages.tag = "Panic" \/ used_packages.tag = "Panic" THEN Err("metadata", ThreadError)
  ELSE IF packages.tag = "Err" /\ used_packages.tag = "Err"
       THEN Err("metadata", CombinedError(packages.err, used_packages.err))
  ELSE IF packages.tag = "Err" THEN Err("metadata", packages.err)
  ELSE IF used_packages.tag = "Err" THEN Err("metadata", used_packages.err)
  ELSE LET filtered == filtered_packages(packages.val, used_packages.val)
       IN  IF has_root_package(filtered)
           THEN Ok(filtered)
           ELSE Err("metadata", <<Leaf("PkgListFromCargoMetadataError::RootPackageMissing", NoDirective)>>)

Failed(error, report) ==
  [tag |-> "Err", error |-> error, report |-> change_context(report, error)]

\* package_list joins both threads and reconciles (`packages` and
\* `used_packages` stay in t_res until the caller goes on);
\* package_list_with_licenses takes the list or returns FailedMetadataFetching
Join ==
  /\ pc = "fetch"
  /\ \A t \in Threads : t_pc[t] = "done"
  /\ LET list == package_list_join(t_res["metadata"], t_res["tree"])
     IN  IF list.tag = "Ok"
         THEN /\ package_list' = list.val
              /\ pc' = "cache"
              /\ result' = result
         ELSE /\ package_list' = package_list
              /\ pc' = "failed"
              /\ result' = Failed("BuildError::FailedMetadataFetching", list.err)
  /\ joined' = [t \in Threads |-> t_res[t].tag]
  /\ t_pc' = [t \in Threads |-> "joined"]
  /\ UNCHANGED <<config_vars, pure_vars, t_pos, t_log, t_err, t_exec, t_res, root_in_graph, root_pos,
                 manifest_dir, out_dir, registry_src>>

\* ------------------------------------------------------------------------
\* populate_with_cache
\* ------------------------------------------------------------------------
\* number of packages of a persisted cache
MaxCacheEntries == 2

\* FnvHashMap::from_iter(cache.iter().map(|e| (&e.name_version, e))):
\* a later entry with the same name_version replaces an earlier one
cache_map(cache) ==
  [nv \in {cache[i].name_version : i \in 1..Len(cache)} |->
     cache[CHOOSE i \in 1..Len(cache) :
             /\ cache[i].name_version = nv
             /\ \A j \in (i + 1)..Len(cache) : cache[j].name_version # nv]]

\* a mutant of ApplyCache: an entry without a license text restores nothing
ApplyCache_SkipsEmptyEntries(pkg_list, cache) ==
  [i \in 1..Len(pkg_list) |->
     IF /\ pkg_list[i].name_version \in DOMAIN cache_map(cache)
        /\ IsSome(cache_map(cache)[pkg_list[i].name_version].license_text)
     THEN [pkg_list[i] EXCEPT
             !.restored_from_cache = TRUE,
             !.license_text = cache_map(cache)[pkg_list[i].name_version].license_text]
     ELSE pkg_list[i]]

\* the loop of populate_with_cache over pkg_list
ApplyCache(pkg_list, cache) ==
  [i \in 1..Len(pkg_list) |->
     IF pkg_list[i].name_version \in DOMAIN cache_map(cache)
     THEN [pkg_list[i] EXCEPT
             !.restored_from_cache = TRUE,
             !.license_text = cache_map(cache)[pkg_list[i].name_version].license_text]
     ELSE pkg_list[i]]

\* ---- the encoded form of a package list ----
\* A byte buffer is a sequence of units; a unit stands for the bytes of a
\* deflate stream header, of a length prefix, of one encoded package, or for
\* bytes that are none of these.
NoPackage ==
  [name |-> <<>>, version |-> <<>>, license_identifier |-> None, license_text |-> None,
   restored_from_cache |-> FALSE, is_root_pkg |-> FALSE, name_version |-> <<>>]

\* derive(Encode) of Package: the fields in the order of their declaration
encode_package(package) ==
  <<package.name, package.version, package.license_identifier, package.license_text,
    package.restored_from_cache, package.is_root_pkg, package.name_version>>

\* a mutant of decode_package: the license text is not restored
decode_package_NoText(fields) ==
  [name |-> fields[1], version |-> fields[2], license_identifier |-> fields[3],
   license_text |-> None, restored_from_cache |-> fields[5], is_root_pkg |-> fields[6],
   name_version |-> fields[7]]

\* derive(Decode) of Package: the fields are read back in the same order
decode_package(fields) ==
  [name |-> fields[1], version |-> fields[2], license_identifier |-> fields[3],
   license_text |-> fields[4], restored_from_cache |-> fields[5], is_root_pkg |-> fields[6],
   name_version |-> fields[7]]

DeflateUnit == [tag |-> "deflate", n |-> 0, pkg |-> encode_package(NoPackage)]

LenUnit(n) == [tag |-> "len", n |-> n, pkg |-> encode_package(NoPackage)]

PkgUnit(package) == [tag |-> "pkg", n |-> 0, pkg |-> encode_package(package)]

JunkUnit == [tag |-> "junk", n |-> 0, pkg |-> encode_package(NoPackage)]

\* the result of a decoding step
Decoded(val) == [tag |-> "Ok", val |-> val, error |-> ""]

DecodeFailed(error) == [tag |-> "Err", val |-> <<>>, error |-> error]

\* bincode::encode_to_vec(self, standard()): the length, then the packages
encode_to_vec(list) == <<LenUnit(Len(list))>> \o [i \in 1..Len(list) |-> PkgUnit(list[i])]

\* miniz_oxide compress_to_vec(&data, 10)
compress_to_vec(data) == <<DeflateUnit>> \o data

\* PackageList::encode
encode(list) == compress_to_vec(encode_to_vec(list))

\* miniz_oxide decompress_to_vec: the data of a deflate stream, or an error
decompress_to_vec(bytes) ==
  IF bytes # <<>> /\ bytes[1] = DeflateUnit
  THEN Decoded(SubSeq(bytes, 2, Len(bytes)))
  ELSE DecodeFailed("UnpackError::DecompressError")

\* bincode::decode_from_slice: the length and as many packages; what
\* follows them is not looked at
decode_from_slice(data) ==
  IF /\ data # <<>>
     /\ data[1].tag = "len"
     /\ Len(data) >= 1 + data[1].n
     /\ \A i \in 2..(1 + data[1].n) : data[i].tag = "pkg"
  THEN Decoded([i \in 1..data[1].n |-> decode_package(data[i + 1].pkg)])
  ELSE DecodeFailed("UnpackError::DecodeError")

\* a mutant of from_encoded: without the test for an empty buffer
from_encoded_NoEmptyTest(bytes) ==
  LET uncompressed_bytes == decompress_to_vec(bytes)
  IN  IF uncompressed_bytes.tag = "Err" THEN uncompressed_bytes
      ELSE decode_from_slice(uncompressed_bytes.val)

\* PackageList::from_encoded
from_encoded(bytes) ==
  IF bytes = <<>> THEN DecodeFailed("UnpackError::Empty")
  ELSE LET uncompressed_bytes == decompress_to_vec(bytes)
       IN  IF uncompressed_bytes.tag = "Err" THEN uncompressed_bytes
           ELSE decode_from_slice(uncompressed_bytes.val)

\* ---- the cache file ----
\* a package of an earlier run as it was persisted
CachedPackage(package, license_text) ==
  [ToPackage(package, MetaApp.name) EXCEPT !.license_text = license_text]

\* the packages a persisted cache of the model can hold
CacheEntries ==
  { CachedPackage(MetaLibA, Some(<<"cached liba text", "\n\n">>)),
    CachedPackage(MetaLibA, None),
    CachedPackage(MetaApp, Some(<<"cached app text", "\n\n">>)) }

\* the package lists an earlier run can have persisted
PersistedLists == DistinctSeqs(CacheEntries, MaxCacheEntries)

\* the contents a readable cache file can have: nothing, bytes that are no
\* deflate stream, a deflate stream of bytes that are no package list, a list
\* cut short, or an encoded package list
CacheFiles ==
  { <<>>,
    <<JunkUnit>>,
    <<DeflateUnit, JunkUnit>>,
    <<DeflateUnit, LenUnit(1)>> } \cup
  {encode(list) : list \in PersistedLists}

OutDir(out_dir_set, try_exists, is_file, readable, bytes) ==
  [looked |-> TRUE, out_dir_set |-> out_dir_set, try_exists |-> try_exists,
   is_file |-> is_file, readable |-> readable, bytes |-> bytes]

\* what the cache step can find: OUT_DIR not set; the path cannot be
\* tested, does not exist, or is a directory; a file that cannot be read;
\* a file with some contents
OutDirStates ==
  { OutDir(FALSE, "no", FALSE, FALSE, <<>>),
    OutDir(TRUE, "error", FALSE, FALSE, <<>>),
    OutDir(TRUE, "no", FALSE, FALSE, <<>>),
    OutDir(TRUE, "yes", FALSE, FALSE, <<>>),
    OutDir(TRUE, "yes", TRUE, FALSE, <<>>) } \cup
  {OutDir(TRUE, "yes", TRUE, TRUE, bytes) : bytes \in CacheFiles}

CacheLoaded(state, cache) == [state |-> state, cache |-> cache]

\* load_package_list_from_out_dir_during_build_script
load_package_list_from_out_dir_during_build_script(env) ==
  IF ~env.out_dir_set THEN CacheLoaded("NotBuildScript", <<>>)
  ELSE IF env.try_exists = "error" THEN CacheLoaded("Invalid", <<>>)
  ELSE IF ~(env.try_exists = "yes" /\ env.is_file) THEN CacheLoaded("Invalid", <<>>)
  ELSE IF ~env.readable THEN CacheLoaded("ReadError", <<>>)
  ELSE LET decoded == from_encoded(env.bytes)
       IN  IF decoded.tag = "Ok" THEN CacheLoaded("Ok", decoded.val)
           ELSE CacheLoaded("Invalid", <<>>)

\* the outcome of the load for what the cache step can find
CacheLoads == [env \in OutDirStates |-> load_package_list_from_out_dir_during_build_script(env)]

\* a mutant of CacheErrorIsSkipped: a cache that is not valid ends the run too
CacheErrorIsSkipped_NotInvalid(state) == state = "NotBuildScript"

\* the match on err.current_context(): Invalid and NotBuildScript are logged,
\* ReadError is returned
CacheErrorIsSkipped(state) == state \in {"Invalid", "NotBuildScript"}

\* a mutant of populate_with_cache: the packages are marked before the cache
\* is loaded
populate_with_cache_MarksFirst(pkg_list, env) ==
  IF CacheLoads[env].state = "Ok"
  THEN [state |-> "Ok", list |-> ApplyCache(pkg_list, CacheLoads[env].cache)]
  ELSE [state |-> CacheLoads[env].state,
        list |-> [i \in 1..Len(pkg_list) |-> [pkg_list[i] EXCEPT !.restored_from_cache = TRUE]]]

\* populate_with_cache: what it returns ("Ok" or the CacheError) and the
\* list after the call; the `?` on the load returns before the loop
populate_with_cache(pkg_list, env) ==
  IF CacheLoads[env].state = "Ok"
  THEN [state |-> "Ok", list |-> ApplyCache(pkg_list, CacheLoads[env].cache)]
  ELSE [state |-> CacheLoads[env].state, list |-> pkg_list]

\* `if config.cache { if let Err(err) = populate_with_cache(&mut package_list) {...} }`
\* (package_list has returned: the values of its two threads are dropped)
PopulateWithCache ==
  /\ pc = "cache"
  /\ \/ /\ ~cfg_cache
        /\ pc' = "scan"
        /\ UNCHANGED <<package_list, result, out_dir>>
     \/ /\ cfg_cache
        /\ \E env \in OutDirStates :
              LET call == populate_with_cache(package_list, env)
              IN  /\ out_dir' = env
                  /\ package_list' = call.list
                  /\ \/ /\ call.state = "Ok"
                        /\ pc' = "scan"
                        /\ result' = result
                     \/ /\ CacheErrorIsSkipped(call.state)
                        /\ pc' = "scan"
                        /\ result' = result
                     \/ /\ call.state # "Ok"
                        /\ ~CacheErrorIsSkipped(call.state)
                        /\ pc' = "failed"
                        /\ result' = Failed("BuildError::CacheReadError",
                                            <<Leaf("CacheError::" \o call.state, NoDirective)>>)
  /\ t_res' = [t \in Threads |-> Running(t)]
  /\ root_in_graph' = "unknown"
  /\ UNCHANGED <<config_vars, pure_vars, t_pc, t_pos, t_log, t_err, t_exec, joined, root_pos,
                 manifest_dir, registry_src>>

\* ------------------------------------------------------------------------
\* populate_package_list_licenses
\* ------------------------------------------------------------------------
\* number of registry source roots under <cargo_home>/registry/src
MaxRoots == 2

\* the folders of the model, and license_text_from_folder tabulated on them
Folders == {FolderMit, FolderMitNotice, FolderReadme, FolderLicensesDir, UnreadableFolder}

LicenseTexts == [folder \in Folders |-> license_text_from_folder(folder)]

\* a mutant of package_hash_map: the flag restored_from_cache is not looked at
package_hash_map_IgnoresRestored(list) ==
  LET todo == {i \in 1..Len(list) : ~IsSome(list[i].license_text)}
  IN  [nv \in {list[i].name_version : i \in todo} |->
         CHOOSE i \in todo :
            /\ list[i].name_version = nv
            /\ \A j \in todo : list[j].name_version = nv => j <= i]

\* package_hash_map: name_version -> the package to fill; of several
\* packages with one name_version the last one stays in the map
package_hash_map(list) ==
  LET todo == {i \in 1..Len(list) :
                 ~IsSome(list[i].license_text) /\ ~list[i].restored_from_cache}
  IN  [nv \in {list[i].name_version : i \in todo} |->
         CHOOSE i \in todo :
            /\ list[i].name_version = nv
            /\ \A j \in todo : list[j].name_version = nv => j <= i]

\* The value of `result.result()` for the errors joined during the scan
\* (<<>> for Ok). The collector of super::error is modelled by
\* ReportList::result: no error gives Ok, else the error that came last is
\* extended by the others in their order.
ReportList_result(errors) ==
  IF errors = <<>> THEN <<>>
  ELSE extend_one(<<errors[Len(errors)]>>, SubSeq(errors, 1, Len(errors) - 1))

\* the for_each over the folders of one source root, from the k-th on
RECURSIVE ScanFolders(_, _, _, _)
ScanFolders(st, targets, dirs, k) ==
  IF k > Len(dirs) THEN st
  ELSE LET e == dirs[k]
           next ==
             IF e.is_dir /\ e.folder_name \in DOMAIN targets
             THEN LET found == LicenseTexts[e.folder]
                  IN  IF found.tag = "Ok"
                      THEN [st EXCEPT !.list[targets[e.folder_name]].license_text = found.val,
                                      !.reads = Append(@, e.folder_name),
                                      !.writes = Append(@, e.folder_name)]
                      ELSE [st EXCEPT !.reads = Append(@, e.folder_name),
                                      !.errors =
                              Append(@, Leaf("LicenseFetchError::LicenseFetchForPackage",
                                             NoDirective))]
             ELSE st
       IN  ScanFolders(next, targets, dirs, k + 1)

\* the while loop over the source roots, from the r-th on; it ends at the
\* first root that cannot be read
RECURSIVE ScanRoots(_, _, _, _)
ScanRoots(st, targets, roots, r) ==
  IF r > Len(roots) THEN st
  ELSE IF ~roots[r].readable THEN [st EXCEPT !.unreadable_root = r]
  ELSE ScanRoots(ScanFolders(st, targets, roots[r].dirs, 1), targets, roots, r + 1)

\* a mutant of populate_package_list_licenses: without a package to fill the
\* registry is not looked at
populate_package_list_licenses_NothingToFill(list, registry) ==
  LET start == [list |-> list, errors |-> <<>>, unreadable_root |-> 0,
                reads |-> <<>>, writes |-> <<>>]
  IN  IF DOMAIN package_hash_map(list) = {}
      THEN [tag |-> "Ok", list |-> list, reads |-> <<>>, writes |-> <<>>, err |-> <<>>]
      ELSE IF registry.state # "Ok"
      THEN [tag |-> "Err", list |-> list, reads |-> <<>>, writes |-> <<>>,
            err |-> change_context(<<Leaf("SrcRegistryInferenceError::" \o registry.state,
                                          NoDirective)>>,
                                   "LicenseFetchError::RegistrySrc")]
      ELSE LET st == ScanRoots(start, package_hash_map(list), registry.roots, 1)
           IN  IF st.unreadable_root # 0
               THEN [tag |-> "Err", list |-> st.list, reads |-> st.reads, writes |-> st.writes,
                     err |-> <<Leaf("LicenseFetchError::SrcFolderRecursion", NoDirective)>>]
               ELSE [tag |-> IF ReportList_result(st.errors) = <<>> THEN "Ok" ELSE "Err",
                     list |-> st.list, reads |-> st.reads, writes |-> st.writes,
                     err |-> ReportList_result(st.errors)]

\* populate_package_list_licenses: the list after the call and what it returns
populate_package_list_licenses(list, registry) ==
  LET start == [list |-> list, errors |-> <<>>, unreadable_root |-> 0,
                reads |-> <<>>, writes |-> <<>>]
  IN  IF registry.state # "Ok"
      THEN [tag |-> "Err", list |-> list, reads |-> <<>>, writes |-> <<>>,
            err |-> change_context(<<Leaf("SrcRegistryInferenceError::" \o registry.state,
                                          NoDirective)>>,
                                   "LicenseFetchError::RegistrySrc")]
      ELSE LET st == ScanRoots(start, package_hash_map(list), registry.roots, 1)
           IN  IF st.unreadable_root # 0
               THEN [tag |-> "Err", list |-> st.list, reads |-> st.reads, writes |-> st.writes,
                     err |-> <<Leaf("LicenseFetchError::SrcFolderRecursion", NoDirective)>>]
               ELSE [tag |-> IF ReportList_result(st.errors) = <<>> THEN "Ok" ELSE "Err",
                     list |-> st.list, reads |-> st.reads, writes |-> st.writes,
                     err |-> ReportList_result(st.errors)]

SrcDir(package, folder) ==
  [folder_name |-> NameVersion(package.name, package.version), is_dir |-> TRUE,
   folder |-> folder]

\* the source roots of the model: one that cannot be read, roots with a
\* folder for liba 1.0, and one with folders for all packages
SourceRoots ==
  {[readable |-> FALSE, dirs |-> <<>>]} \cup
  {[readable |-> TRUE, dirs |-> <<SrcDir(MetaLibA, f)>>] :
     f \in {FolderMit, FolderReadme, UnreadableFolder}} \cup
  {[readable |-> TRUE,
    dirs |-> <<SrcDir(MetaB64, FolderMitNotice), SrcDir(MetaLibA, FolderMit),
               SrcDir(MetaApp, FolderMitNotice)>>]}

RECURSIVE SeqsUpTo(_, _)
\* sequences of elements of S with at most n elements
SeqsUpTo(S, n) ==
  IF n = 0 THEN {<<>>}
  ELSE LET shorter == SeqsUpTo(S, n - 1)
       IN  shorter \cup {Append(q, x) : q \in {r \in shorter : Len(r) = n - 1}, x \in S}

\* the states of <cargo_home>/registry/src
Registries ==
  {[state |-> st, roots |-> <<>>] : st \in {"DoesNotExist", "IsNotAFolder", "FailedReadDir"}} \cup
  {[state |-> "Ok", roots |-> roots] : roots \in SeqsUpTo(SourceRoots, MaxRoots)}

\* populate_package_list_licenses(&mut package_list, config.cargo_home_dir)
\*     .change_context(BuildError::FailedLicenseFetch)?
\* (the value the cache step loaded is gone; the registry stays in view
\* until the rest of the run is through)
PopulatePackageListLicenses ==
  /\ pc = "scan"
  /\ \E registry \in Registries :
        LET scan == populate_package_list_licenses(package_list, registry)
        IN  /\ registry_src' = registry
            /\ \/ /\ scan.tag = "Ok"
                  /\ package_list' = scan.list
                  /\ pc' = "pin"
                  /\ result' = result
               \/ /\ scan.tag = "Err"
                  /\ package_list' = scan.list
                  /\ pc' = "failed"
                  /\ result' = Failed("BuildError::FailedLicenseFetch", scan.err)
  /\ out_dir' = NoOutDir
  /\ UNCHANGED <<config_vars, pure_vars, thread_vars, joined, root_pos, manifest_dir>>

\* ------------------------------------------------------------------------
\* Root pinning and sorting
\* ------------------------------------------------------------------------
\* package_list.iter().position(|e| e.is_root_pkg), counted from 1; 0 for None
RootPosition(list) ==
  IF \E i \in 1..Len(list) : list[i].is_root_pkg
  THEN CHOOSE i \in 1..Len(list) :
          list[i].is_root_pkg /\ \A j \in 1..(i - 1) : ~list[j].is_root_pkg
  ELSE 0

\* a mutant of Swap: the element at j is copied to i, the one at i is lost
Swap_Overwrites(list, i, j) == [list EXCEPT ![i] = list[j]]

\* package_list.swap(0, root_pos)
Swap(list, i, j) == [list EXCEPT ![i] = list[j], ![j] = list[i]]

\* the place of x in an ascending sequence: behind every element that is
\* not greater (the sort is stable)
InsertSorted(sorted, x) ==
  LET k == Cardinality({i \in 1..Len(sorted) : ~PackageLess(x, sorted[i])})
  IN  SubSeq(sorted, 1, k) \o <<x>> \o SubSeq(sorted, k + 1, Len(sorted))

RECURSIVE SortPackages(_)
\* [Package]::sort with Package::cmp
SortPackages(list) ==
  IF list = <<>> THEN <<>>
  ELSE InsertSorted(SortPackages(SubSeq(list, 1, Len(list) - 1)), list[Len(list)])

\* a mutant of RootLicense: a text found before is kept
RootLicense_KeepsFound(list, own) ==
  IF IsSome(list[1].license_text) THEN list ELSE [list EXCEPT ![1].license_text = own]

\* package_list[0].license_text = license_text_from_folder(manifest_dir)?
RootLicense(list, own) == [list EXCEPT ![1].license_text = own]

\* a mutant of SortTail: the elements behind the root keep their order
SortTail_Unsorted(list) == list

\* package_list[1..].sort()
SortTail(list) == <<list[1]>> \o SortPackages(SubSeq(list, 2, Len(list)))

\* the folders the project's manifest directory can be
ManifestFolders == {FolderMit, FolderReadme, UnreadableFolder}

\* the rest of package_list_with_licenses: find the root, swap it to the
\* front, sort the others, read the project's own license
PinRootAndSort ==
  /\ pc = "pin"
  /\ root_pos' = RootPosition(package_list)
  /\ \/ /\ RootPosition(package_list) = 0
        /\ pc' = "failed"
        /\ result' = [tag |-> "Err", error |-> "BuildError::Unexpected", report |-> <<>>]
        /\ package_list' = package_list
        /\ manifest_dir' = NoManifestDir
     \/ /\ RootPosition(package_list) # 0
        /\ \E folder \in ManifestFolders :
              LET pinned == SortTail(Swap(package_list, 1, RootPosition(package_list)))
                  own == LicenseTexts[folder]
              IN  /\ manifest_dir' = [looked |-> TRUE, folder |-> folder]
                  /\ \/ /\ own.tag = "Err"
                        /\ pc' = "failed"
                        /\ result' = Failed("BuildError::FailedLicenseFetch",
                                            <<Leaf("io::Error", NoDirective)>>)
                        /\ package_list' = pinned
                     \/ /\ own.tag = "Ok"
                        /\ package_list' = RootLicense(pinned, own.val)
                        /\ pc' = "done"
                        /\ result' = [tag |-> "Ok", error |-> "", report |-> <<>>]
  /\ registry_src' = NoRegistry
  /\ UNCHANGED <<config_vars, pure_vars, thread_vars, joined, out_dir>>

\* the directive lists of a resolution run: CargoDirectiveList::prefer_locked()
\* and the empty list
ConfiguredLists == {<<>>, <<"Locked", "Default">>}

Init ==
  /\ RebuildIdle
  /\ TreeIdle
  /\ WalkIdle
  /\ FolderIdle
  /\ CodecIdle
  /\ cargo_directives \in ConfiguredLists
  /\ debug_assertions \in (IF cargo_directives = <<>> THEN BOOLEAN ELSE {FALSE})
  /\ cfg_cache \in BOOLEAN
  /\ RunIdle

Next ==
  \/ \E t \in Threads : ExecCargoSingle(t)
  \/ \E t \in Threads : ExecCargoNoDirective(t)
  \/ \E t \in Threads : ThreadFinish(t)
  \/ Join
  \/ PopulateWithCache
  \/ PopulatePackageListLicenses
  \/ PinRootAndSort

Spec == Init /\ [][Next]_vars


\* ------------------------------------------------------------------------
\* exec_cargo on every directive list
\* ------------------------------------------------------------------------
\* the directive lists of the exec_cargo specification
DirectiveLists == SeqsUpTo(Directives, MaxDirectives)

InitExec ==
  /\ RebuildIdle
  /\ TreeIdle
  /\ WalkIdle
  /\ FolderIdle
  /\ CodecIdle
  /\ cargo_directives \in DirectiveLists
  /\ debug_assertions \in BOOLEAN
  /\ cfg_cache = FALSE
  /\ RunIdle

NextExec ==
  \/ \E t \in Threads : ExecCargoSingle(t)
  \/ \E t \in Threads : ExecCargoNoDirective(t)

SpecExec == InitExec /\ [][NextExec]_vars


\* ------------------------------------------------------------------------
\* license_text_from_folder on bounded folders
\* ------------------------------------------------------------------------
\* bound: the number of entries of a scanned folder
MaxEntries == 3

\* the folders license_text_from_folder is applied to: their entries are
\* license files, other files, a file that is not text, directories with
\* and without a license name, readable or not
FolderInputs ==
  LET entries ==
        {FileLicenseMit, FileNotice, FileReadme, FileCopying,
         BinaryFile(<<"E", "U", "L", "A">>),
         Dir(<<"l", "i", "c", "e", "n", "s", "e", "s">>, TRUE, <<FileCopying, FileReadme>>),
         Dir(<<"L", "i", "c", "e", "n", "s", "e", "s">>, FALSE, <<>>),
         Dir(<<"s", "r", "c">>, TRUE, <<FileLicenseMit>>)}
  IN  {UnreadableFolder} \cup {Folder(e) : e \in DistinctSeqs(entries, MaxEntries)}

InitFolder ==
  /\ RebuildIdle
  /\ TreeIdle
  /\ WalkIdle
  /\ CodecIdle
  /\ f_pc = "start"
  /\ f_folder \in FolderInputs
  /\ f_result = [tag |-> "None", val |-> None]
  /\ cargo_directives = <<"Default">>
  /\ debug_assertions = FALSE
  /\ cfg_cache = FALSE
  /\ RunIdle

\* license_text_from_folder(&path)
LicenseTextFromFolder ==
  /\ f_pc = "start"
  /\ f_result' = license_text_from_folder(f_folder)
  /\ f_pc' = "done"
  /\ UNCHANGED <<f_folder, walk_vars, codec_vars, rebuild_vars, tree_vars, config_vars, thread_vars, run_vars>>

SpecFolder == InitFolder /\ [][LicenseTextFromFolder]_vars


\* ------------------------------------------------------------------------
\* PackageList::from_encoded on bounded buffers
\* ------------------------------------------------------------------------
\* bound: the length of a decoded buffer
MaxBufferLen == 3

\* the buffers from_encoded is applied to
Buffers ==
  LET units == {DeflateUnit, JunkUnit}
                 \cup {LenUnit(n) : n \in 0..MaxCacheEntries}
                 \cup {PkgUnit(package) : package \in CacheEntries}
  IN  SeqsUpTo(units, MaxBufferLen)

\* either a buffer is given to from_encoded, or a package list that is first
\* encoded: a list of persisted packages, one of them restored from a cache
InitCodec ==
  /\ RebuildIdle
  /\ TreeIdle
  /\ WalkIdle
  /\ FolderIdle
  /\ \/ /\ d_pc = "start"
        /\ d_list = [given |-> FALSE, list |-> <<>>]
        /\ d_bytes \in Buffers
     \/ /\ d_pc = "encode"
        /\ LET packages ==
                 CacheEntries \cup
                   {[CachedPackage(MetaB64, None) EXCEPT !.restored_from_cache = TRUE]}
           IN  d_list \in {[given |-> TRUE, list |-> list] :
                              list \in SeqsUpTo(packages, MaxCacheEntries)}
        /\ d_bytes = <<>>
  /\ d_result = [tag |-> "None", val |-> <<>>, error |-> ""]
  /\ cargo_directives = <<"Default">>
  /\ debug_assertions = FALSE
  /\ cfg_cache = FALSE
  /\ RunIdle

\* package_list.encode()
Encode ==
  /\ d_pc = "encode"
  /\ d_bytes' = encode(d_list.list)
  /\ d_pc' = "start"
  /\ UNCHANGED <<d_list, d_result, walk_vars, folder_vars, rebuild_vars, tree_vars, config_vars, thread_vars,
                 run_vars>>

\* PackageList::from_encoded(bytes)
FromEncoded ==
  /\ d_pc = "start"
  /\ d_result' = from_encoded(d_bytes)
  /\ d_pc' = "done"
  /\ UNCHANGED <<d_list, d_bytes, walk_vars, folder_vars, rebuild_vars, tree_vars, config_vars, thread_vars,
                 run_vars>>

SpecCodec == InitCodec /\ [][Encode \/ FromEncoded]_vars


\* ------------------------------------------------------------------------
\* A build that is run again on the cache it persisted
\* ------------------------------------------------------------------------
\* package_list_with_licenses from the point where package_list returned
\* `list`, with config.cache set: the cache step, the license scan, the root
\* pin and the sort, as one call
package_list_with_licenses_after(list, env, registry, folder) ==
  LET load == load_package_list_from_out_dir_during_build_script(env)
      failed(error) == [tag |-> "Err", error |-> error, list |-> <<>>]
  IN  IF load.state # "Ok" /\ ~CacheErrorIsSkipped(load.state)
      THEN failed("BuildError::CacheReadError")
      ELSE LET cached == IF load.state = "Ok" THEN ApplyCache(list, load.cache) ELSE list
               scan == populate_package_list_licenses(cached, registry)
           IN  IF scan.tag = "Err" THEN failed("BuildError::FailedLicenseFetch")
               ELSE IF RootPosition(scan.list) = 0 THEN failed("BuildError::Unexpected")
               ELSE IF LicenseTexts[folder].tag = "Err"
                    THEN failed("BuildError::FailedLicenseFetch")
               ELSE [tag |-> "Ok", error |-> "",
                     list |-> RootLicense(SortTail(Swap(scan.list, 1, RootPosition(scan.list))),
                                          LicenseTexts[folder].val)]

\* the inputs of the builds: a list package_list returned, the registry and
\* the manifest directory, and the cache file of the first build (none, one
\* that is not a cache, or the list of an older build)
InitRebuild ==
  /\ TreeIdle
  /\ WalkIdle
  /\ FolderIdle
  /\ CodecIdle
  /\ b_pc = "build"
  /\ LET joins == {package_list_join(m, t) : m \in MetadataResults, t \in TreeResults}
     IN  b_in \in [list : {r.val : r \in {j \in joins : j.tag = "Ok"}},
                   registry : Registries,
                   folder : ManifestFolders]
  /\ b_cache \in {OutDir(TRUE, "no", FALSE, FALSE, <<>>), OutDir(TRUE, "yes", TRUE, TRUE, <<JunkUnit>>)}
                  \cup {OutDir(TRUE, "yes", TRUE, TRUE, encode(<<e>>)) : e \in CacheEntries}
  /\ b_results = <<>>
  /\ cargo_directives = <<"Default">>
  /\ debug_assertions = FALSE
  /\ cfg_cache = TRUE
  /\ RunIdle

\* one run of package_list_with_licenses on the inputs and on the cache file
\* as it is
Build ==
  /\ b_pc = "build"
  /\ LET run == package_list_with_licenses_after(b_in.list, b_cache, b_in.registry, b_in.folder)
     IN  /\ b_results' = Append(b_results, run)
         /\ b_pc' = IF run.tag # "Ok" THEN "failed"
                    ELSE IF b_results = <<>> THEN "write" ELSE "done"
  /\ UNCHANGED <<b_in, b_cache, walk_vars, folder_vars, codec_vars, tree_vars, config_vars, thread_vars,
                 run_vars>>

\* package_list.write_package_list_to_out_dir() on the list the build returned
WriteCache ==
  /\ b_pc = "write"
  /\ b_cache' = OutDir(TRUE, "yes", TRUE, TRUE, encode(b_results[Len(b_results)].list))
  /\ b_pc' = "build"
  /\ UNCHANGED <<b_in, b_results, walk_vars, folder_vars, codec_vars, tree_vars, config_vars, thread_vars,
                 run_vars>>

SpecRebuild == InitRebuild /\ [][Build \/ WriteCache]_vars


\* ------------------------------------------------------------------------
\* used_pkg_names_from_cargo_tree on bounded outputs
\* ------------------------------------------------------------------------
\* bound: the number of lines of an output of `cargo tree`
MaxTreeLines == 2

\* the outputs of `cargo tree` the function is applied to: lines of
\* TreeLineSeq, a line with a tab behind the name, an indented line, an empty
\* line and a line of tabs; or bytes that are not UTF-8
InitTree ==
  /\ WalkIdle
  /\ FolderIdle
  /\ CodecIdle
  /\ RebuildIdle
  /\ u_pc = "start"
  /\ LET lines == {TreeLineSeq[i] : i \in 1..Len(TreeLineSeq)} \cup
                  { <<"l", "i", "b", "a", "\t", "v", "1", ".", "0">>,
                    <<" ", "\t", "b", "6", "4", " ", "v", "0", ".", "2">>,
                    <<>>,
                    <<"\t">> }
     IN  u_stdout \in {[utf8 |-> FALSE, lines |-> <<>>]} \cup
                      {[utf8 |-> TRUE, lines |-> l] : l \in SeqsUpTo(lines, MaxTreeLines)}
  /\ u_result = Running("tree")
  /\ cargo_directives = <<"Default">>
  /\ debug_assertions = FALSE
  /\ cfg_cache = FALSE
  /\ RunIdle

\* used_pkg_names_from_cargo_tree from the output of the command on
UsedPkgNamesFromCargoTree ==
  /\ u_pc = "start"
  /\ u_result' = used_pkg_names_from_cargo_tree(u_stdout)
  /\ u_pc' = "done"
  /\ UNCHANGED <<u_stdout, walk_vars, folder_vars, codec_vars, rebuild_vars, config_vars,
                 thread_vars, run_vars>>

SpecTree == InitTree /\ [][UsedPkgNamesFromCargoTree]_vars

\* C1: exec_cargo runs the configured directives in list order, each entry
\* of the list at most once; it returns the output of the first run that
\* exits successfully, and no directive is run after a successful one.
C1_FirstSuccessIsReturned ==
  \A t \in Threads :
    LET log == t_log[t]
    IN  /\ Len(log) = t_pos[t]
        /\ Len(log) <= Len(cargo_directives)
        /\ \A i \in 1..Len(log) :
              /\ log[i].directive = cargo_directives[i]
              /\ log[i].flag = DirectiveFlag(cargo_directives[i])
        /\ \A i \in 1..(Len(log) - 1) : log[i].outcome # "Ok"
        /\ t_exec[t].tag = "Ok" =>
              /\ t_exec[t].run = Len(log)
              /\ log[Len(log)].outcome = "Ok"
        /\ (Len(log) > 0 /\ log[Len(log)].outcome = "Ok") =>
              /\ t_exec[t].tag = "Ok"
              /\ t_pc[t] = "returned"

\* exec_cargo returned the output of the second of three directives after
\* the first one failed
C1_Witness ==
  \E t \in Threads :
    /\ Len(cargo_directives) = 3
    /\ t_pc[t] = "returned"
    /\ t_exec[t].tag = "Ok"
    /\ t_exec[t].run = 2
    /\ Len(t_log[t]) = 2
    /\ t_log[t][1].outcome # "Ok"

\* C2: when every directive of a non-empty list fails, the error exec_cargo
\* returns carries the error of each directive that was run, one per
\* directive and in list order.
C2_EveryFailureIsCarried ==
  \A t \in Threads :
    (t_exec[t].tag = "Err" /\ Len(cargo_directives) > 0) =>
      LET err == t_exec[t].err
      IN  /\ Len(t_log[t]) = Len(cargo_directives)
          /\ Len(err) = Len(cargo_directives)
          /\ \A i \in 1..Len(err) :
                /\ err[i].directive = cargo_directives[i]
                /\ t_log[t][i].outcome # "Ok"
                /\ \/ /\ t_log[t][i].outcome = "FailedExecution"
                      /\ err[i].error = "ExecCargoError::FailedExecution"
                   \/ /\ t_log[t][i].outcome = "FailedToExecute"
                      /\ err[i].contexts = <<"ExecCargoError::FailedToExecute">>

\* exec_cargo failed on a list of different directives, one of which could
\* not be started and another one exited unsuccessfully
C2_Witness ==
  \E t \in Threads :
    /\ t_exec[t].tag = "Err"
    /\ Len(t_exec[t].err) >= 2
    /\ t_exec[t].err[1].directive # t_exec[t].err[2].directive
    /\ t_log[t][1].outcome = "FailedToExecute"
    /\ t_log[t][2].outcome = "FailedExecution"

\* ------------------------------------------------------------------------
\* package_list and package_list_with_licenses
\* ------------------------------------------------------------------------
\* both threads have finished and package_list is about to join them
AtJoin == pc = "fetch" /\ \A t \in Threads : t_pc[t] = "done"

\* C5 (as claimed): when the metadata fetch succeeded and the tree fetch
\* failed, package_list skips the reconciliation and returns the list of the
\* graph walk as it is.
C5_TreeFailureIsBypassed ==
  [][(AtJoin /\ t_res["metadata"].tag = "Ok" /\ t_res["tree"].tag = "Err")
       => (pc' = "cache" /\ package_list' = t_res["metadata"].val)]_vars

\* C6: when both fetches failed, package_list fails with one error made of
\* the errors of the metadata fetch followed by the errors of the tree fetch.
C6_BothFailuresAreReported ==
  [][(AtJoin /\ t_res["metadata"].tag = "Err" /\ t_res["tree"].tag = "Err")
       => /\ pc' = "failed"
          /\ result'.tag = "Err"
          /\ result'.report =
               change_context(t_res["metadata"].err \o t_res["tree"].err,
                              "BuildError::FailedMetadataFetching")]_vars

\* both fetches failed in decoding, and the returned error has the error of
\* the metadata fetch and the error of the tree fetch
C6_Witness ==
  /\ pc = "failed"
  /\ joined["metadata"] = "Err"
  /\ joined["tree"] = "Err"
  /\ Len(result.report) = 2
  /\ result.report[1].error = "PkgListFromCargoMetadataError::ParseJson"
  /\ result.report[2].error = "PkgListFromCargoMetadataError::ParseString"

\* C7: when the metadata fetch failed, package_list_with_licenses fails with
\* FailedMetadataFetching and no list is returned, whatever the tree fetch
\* returned.
C7_MetadataFailureIsFatal ==
  joined["metadata"] = "Err" =>
    /\ pc = "failed"
    /\ result.tag = "Err"
    /\ result.error = "BuildError::FailedMetadataFetching"
    /\ package_list = <<>>

\* every directive of the metadata fetch failed while the tree fetch
\* succeeded, and the resolution failed
C7_Witness ==
  /\ joined["metadata"] = "Err"
  /\ joined["tree"] = "Ok"
  /\ pc = "failed"
  /\ Len(result.report) = Len(cargo_directives)
  /\ \A i \in 1..Len(result.report) :
        /\ result.report[i].directive = cargo_directives[i]
        /\ \E k \in 1..Len(result.report[i].contexts) :
              result.report[i].contexts[k] = "PkgListFromCargoMetadataError::ExecCargo"

\* C8 (as claimed): a returned list has exactly one element with
\* is_root_pkg, and it is the first element.
C8_OneRootAtIndexZero ==
  pc = "done" =>
    /\ Len(package_list) >= 1
    /\ package_list[1].is_root_pkg
    /\ \A i \in 2..Len(package_list) : ~package_list[i].is_root_pkg

\* C9: in a returned list the elements after the first are in
\* non-decreasing order of (name, version).
C9_TailIsSorted ==
  pc = "done" =>
    \A i \in 2..(Len(package_list) - 1) :
      ~PackageLess(package_list[i + 1], package_list[i])

\* a list of three was returned whose root was the last element before the
\* swap, and the two elements after the root differ in the order
C9_Witness ==
  /\ pc = "done"
  /\ Len(package_list) = 3
  /\ root_pos = 3
  /\ PackageLess(package_list[2], package_list[3])

\* C10 (as claimed): no two elements of a returned list have the same
\* name_version.
C10_NameVersionIsUnique ==
  pc = "done" =>
    \A i \in 1..Len(package_list) : \A j \in 1..Len(package_list) :
      i # j => package_list[i].name_version # package_list[j].name_version


\* C11: the reconciliation keeps a package of the graph walk exactly when its
\* name is among the names parsed from the output of `cargo tree`; the
\* version plays no part, and the kept packages stay in their order.
C11_ReconciledByNameAlone ==
  [][(AtJoin /\ t_res["metadata"].tag = "Ok" /\ t_res["tree"].tag = "Ok" /\ pc' = "cache")
       => LET walked == t_res["metadata"].val
              names == t_res["tree"].val
              kept == {i \in 1..Len(walked) : walked[i].name \in names}
          IN  /\ Len(package_list') = Cardinality(kept)
              /\ \A i \in 1..Len(walked) :
                    (\E k \in 1..Len(package_list') : package_list'[k] = walked[i])
                      <=> walked[i].name \in names
              /\ \A k \in 1..Len(package_list') : package_list'[k].name \in names
              /\ \A k \in 1..(Len(package_list') - 1) :
                    \E i \in 1..Len(walked) : \E j \in (i + 1)..Len(walked) :
                       package_list'[k] = walked[i] /\ package_list'[k + 1] = walked[j]]_vars

\* the graph walk gave two versions of one name and a package of another
\* name; the tree output listed only the first name, and the reconciled list
\* has both versions and not the other package
C11_Witness ==
  /\ pc = "cache"
  /\ \A t \in Threads : t_pc[t] = "joined" /\ t_res[t].tag = "Ok"
  /\ Len(t_res["metadata"].val) = 3
  /\ Len(package_list) = 2
  /\ package_list[1].name = package_list[2].name
  /\ package_list[1].version # package_list[2].version
  /\ \E i \in 1..3 : t_res["metadata"].val[i].name \notin t_res["tree"].val


\* ------------------------------------------------------------------------
\* The cache step and the license scan
\* ------------------------------------------------------------------------
\* the folder names license_text_from_folder was called for in a scan
ScanReads(list, registry) ==
  LET scan == populate_package_list_licenses(list, registry)
  IN  {scan.reads[k] : k \in 1..Len(scan.reads)}

\* the entries of a loaded cache with the name_version nv
CacheHits(cache, nv) == {k \in 1..Len(cache) : cache[k].name_version = nv}

\* the last one of a non-empty set of indices
Last(S) == CHOOSE k \in S : \A j \in S : j <= k

\* the cache step with a readable cache: a package with an entry gets the
\* cached text and restored_from_cache, a package without one stays as it was
C12_CacheApplied ==
  (pc = "cache" /\ pc' = "scan" /\ out_dir'.looked /\ CacheLoads[out_dir'].state = "Ok") =>
     /\ Len(package_list') = Len(package_list)
     /\ \A i \in 1..Len(package_list) :
          LET cache == CacheLoads[out_dir'].cache
              hits == CacheHits(cache, package_list[i].name_version)
          IN  IF hits # {}
              THEN package_list'[i] =
                     [package_list[i] EXCEPT
                        !.restored_from_cache = TRUE,
                        !.license_text = cache[Last(hits)].license_text]
              ELSE /\ package_list'[i] = package_list[i]
                   /\ ~package_list'[i].restored_from_cache

\* the license scan: no folder is read for a restored package, whatever the
\* registry the scan found holds, and the scan leaves the package as it is
C12_RestoredNotScanned ==
  (pc = "scan" /\ pc' # "scan") =>
     \A i \in 1..Len(package_list) :
        package_list[i].restored_from_cache
          => /\ package_list[i].name_version \notin ScanReads(package_list, registry_src')
             /\ package_list'[i] = package_list[i]

\* the last step: a package other than the one moved to the front is in the
\* returned list as it was after the scan
C12_KeptToTheEnd ==
  (pc = "pin" /\ pc' = "done") =>
     \A i \in 1..Len(package_list) :
        i # root_pos' => \E k \in 2..Len(package_list') : package_list'[k] = package_list[i]

\* C12: with a readable cache, a package other than the root whose
\* name_version has a cache entry ends with the cached text and
\* restored_from_cache = TRUE, and the scan reads no source folder for it
\* (the cache is applied before the scan); a package without an entry goes
\* to the scan with restored_from_cache = FALSE.
C12_CacheHitIsFinal ==
  /\ [][C12_CacheApplied]_vars
  /\ [][C12_RestoredNotScanned]_vars
  /\ [][C12_KeptToTheEnd]_vars

\* after the scan: a package restored with the cached text although a source
\* root has a folder with a license for it, next to a package without a
\* cache entry that got its text from the scan
C12_Witness ==
  /\ pc = "pin"
  /\ registry_src.state = "Ok"
  /\ \E i \in 1..Len(package_list) : \E j \in 1..Len(package_list) :
        /\ ~package_list[i].is_root_pkg
        /\ package_list[i].restored_from_cache
        /\ package_list[i].license_text = Some(<<"cached liba text", "\n\n">>)
        /\ \E r \in 1..Len(registry_src.roots) :
              \E k \in 1..Len(registry_src.roots[r].dirs) :
                 /\ registry_src.roots[r].dirs[k].folder_name = package_list[i].name_version
                 /\ registry_src.roots[r].dirs[k].folder = FolderMit
        /\ ~package_list[j].restored_from_cache
        /\ IsSome(package_list[j].license_text)


\* C13: with the cache switched on, the cache step is skipped and the run
\* goes on with the list as it is when OUT_DIR is not set (NotBuildScript)
\* or the cache file cannot be tested, is absent, is no file or cannot be
\* decoded (Invalid); the run fails, with CacheReadError, exactly when the
\* file is there and cannot be read.
C13_OnlyReadErrorAborts ==
  [][(pc = "cache" /\ cfg_cache /\ pc' # "cache")
       => LET env == out_dir'
              unavailable ==
                \/ ~env.out_dir_set
                \/ env.try_exists # "yes"
                \/ ~env.is_file
                \/ env.readable /\ from_encoded(env.bytes).tag = "Err"
              unreadable ==
                env.out_dir_set /\ env.try_exists = "yes" /\ env.is_file /\ ~env.readable
          IN  /\ env.looked
              /\ unavailable => /\ pc' = "scan"
                                /\ package_list' = package_list
                                /\ result' = result
              /\ unreadable <=> pc' = "failed"
              /\ pc' = "failed" => /\ result'.tag = "Err"
                                   /\ result'.error = "BuildError::CacheReadError"
                                   /\ package_list' = package_list
              /\ pc' \in {"scan", "failed"}]_vars

\* the cache file was a deflate stream of something that is no package
\* list; the cache step was skipped and the run went on to the scan
C13_Witness ==
  /\ pc = "scan"
  /\ cfg_cache
  /\ out_dir.looked
  /\ out_dir.out_dir_set /\ out_dir.try_exists = "yes" /\ out_dir.is_file /\ out_dir.readable
  /\ out_dir.bytes = <<DeflateUnit, JunkUnit>>
  /\ result = NoResult
  /\ Len(package_list) >= 2
  /\ \A i \in 1..Len(package_list) : ~package_list[i].restored_from_cache


\* the folders some source root of the registry has under the name nv
FoldersFor(registry, nv) ==
  UNION {{registry.roots[r].dirs[k].folder :
            k \in {d \in 1..Len(registry.roots[r].dirs) :
                     registry.roots[r].dirs[d].folder_name = nv}} :
         r \in 1..Len(registry.roots)}

\* every source root of the registry can be read
RootsReadable(registry) ==
  registry.state = "Ok" /\ \A r \in 1..Len(registry.roots) : registry.roots[r].readable

\* C14 (as claimed): when the registry and its source roots can be read, the
\* scan does not fail, and a package that is not the root and for which
\* every folder found is unreadable or has no license file (or for which
\* there is no folder) has license_text = None after the scan.
C14_LookupMissIsNotFatal ==
  [][(pc = "scan" /\ pc' # "scan" /\ RootsReadable(registry_src'))
       => /\ pc' = "pin"
          /\ \A i \in 1..Len(package_list) :
                (/\ ~package_list[i].is_root_pkg
                 /\ ~package_list[i].restored_from_cache
                 /\ ~IsSome(package_list[i].license_text)
                 /\ \A folder \in FoldersFor(registry_src', package_list[i].name_version) :
                       ~IsSome(LicenseTexts[folder].val))
                  => ~IsSome(package_list'[i].license_text)]_vars


\* the package folders of the readable source roots can all be read
PackageFoldersReadable(registry) ==
  \A r \in 1..Len(registry.roots) : \A k \in 1..Len(registry.roots[r].dirs) :
     registry.roots[r].dirs[k].folder.readable

\* the folders the readable source roots of the registry have under the name nv
ReadableFoldersFor(registry, nv) ==
  FoldersFor([registry EXCEPT !.roots = SelectSeq(@, LAMBDA root : root.readable)], nv)

\* C15 (as claimed): a source root that cannot be read does not end the scan;
\* the other roots are still scanned, and the scan fails only when no source
\* root could be read.
C15_UnreadableRootIsSkipped ==
  [][(/\ pc = "scan" /\ pc' # "scan"
      /\ registry_src'.state = "Ok"
      /\ PackageFoldersReadable(registry_src')
      /\ \E r \in 1..Len(registry_src'.roots) : registry_src'.roots[r].readable)
       => /\ pc' = "pin"
          /\ \A i \in 1..Len(package_list) :
                (/\ ~package_list[i].restored_from_cache
                 /\ ~IsSome(package_list[i].license_text)
                 /\ \E folder \in ReadableFoldersFor(registry_src', package_list[i].name_version) :
                       IsSome(LicenseTexts[folder].val))
                  => IsSome(package_list'[i].license_text)]_vars


\* the source roots of the registry that have a folder with the name nv
RootsWith(registry, nv) ==
  {r \in 1..Len(registry.roots) :
     \E k \in 1..Len(registry.roots[r].dirs) : registry.roots[r].dirs[k].folder_name = nv}

\* the folder with the name nv in the first source root that has one
FirstFolderFor(registry, nv) ==
  LET r == CHOOSE x \in RootsWith(registry, nv) : \A y \in RootsWith(registry, nv) : x <= y
      dirs == registry.roots[r].dirs
      k == CHOOSE x \in 1..Len(dirs) :
              /\ dirs[x].folder_name = nv
              /\ \A y \in 1..(x - 1) : dirs[y].folder_name # nv
  IN  dirs[k].folder

\* how often the scan assigned the license_text of the package with the name nv
WritesOf(list, registry, nv) ==
  LET writes == populate_package_list_licenses(list, registry).writes
  IN  Cardinality({k \in 1..Len(writes) : writes[k] = nv})

\* C16 (as claimed): after a scan that succeeded, a package the scan had to
\* fill has the license text of its folder in the first source root that has
\* one, and its license_text was assigned at most once.
C16_FirstRootWins ==
  [][(pc = "scan" /\ pc' = "pin")
       => \A i \in 1..Len(package_list) :
             (/\ ~package_list[i].restored_from_cache
              /\ ~IsSome(package_list[i].license_text)
              /\ \A j \in 1..Len(package_list) :
                    j # i => package_list[j].name_version # package_list[i].name_version
              /\ RootsWith(registry_src', package_list[i].name_version) # {})
               => /\ package_list'[i].license_text =
                       LicenseTexts[FirstFolderFor(registry_src',
                                                   package_list[i].name_version)].val
                  /\ WritesOf(package_list, registry_src', package_list[i].name_version) <= 1]_vars

\* the texts of the readable regular files with a license name, in the
\* order of the folder; a directory with a license name stands for the
\* files in it
C17_Texts(entries) ==
  LET matching(e) == e.kind = "file" /\ e.readable /\ IsLicenseFileName(e.file_name)
      of(e) == IF matching(e) THEN <<e.content>>
               ELSE IF e.kind = "dir" /\ e.readable /\ IsLicenseFileName(e.file_name)
                    THEN LET files == SelectSeq(e.children, matching)
                         IN  [k \in 1..Len(files) |-> files[k].content]
               ELSE <<>>
      all[i \in 0..Len(entries)] == IF i = 0 THEN <<>> ELSE all[i - 1] \o of(entries[i])
  IN  all[Len(entries)]

\* texts with "\n\n" between them
C17_Joined(texts) ==
  [k \in 1..(2 * Len(texts) - 1) |-> IF k % 2 = 1 THEN texts[(k + 1) \div 2] ELSE "\n\n"]

\* C17 (as claimed): license_text_from_folder of a readable folder returns
\* the contents of its readable regular files with a license name with a
\* blank-line separator between them, and None when there is no such file.
C17_SeparatorBetweenTexts ==
  (f_pc = "done" /\ f_folder.readable)
    => f_result = [tag |-> "Ok",
                   val |-> IF C17_Texts(f_folder.entries) = <<>> THEN None
                           ELSE Some(C17_Joined(C17_Texts(f_folder.entries)))]

\* C18: in every run that succeeded, the license_text of the element at
\* index 0 is what license_text_from_folder returns for the project's
\* manifest directory, whatever the cache or the source roots held for it.
C18_RootLicenseFromManifestDir ==
  pc = "done"
    => /\ manifest_dir.looked
       /\ license_text_from_folder(manifest_dir.folder).tag = "Ok"
       /\ package_list[1].license_text = license_text_from_folder(manifest_dir.folder).val

\* a run succeeded whose root package was restored from the cache with a
\* license text, and has none at the end: the manifest directory has no
\* license file
C18_Witness ==
  /\ pc = "done"
  /\ package_list[1].is_root_pkg
  /\ package_list[1].restored_from_cache
  /\ manifest_dir = [looked |-> TRUE, folder |-> FolderReadme]
  /\ package_list[1].license_text = None

\* C19: when both fetches succeeded and no package of the reconciled list is
\* marked as the root package, the resolution fails with RootPackageMissing;
\* a list that passed package_list, and so every list a run returns, has a
\* package marked as the root.
C19_RootMissingIsAnError ==
  /\ (/\ pc = "failed"
      /\ \A t \in Threads : t_pc[t] = "joined" /\ t_res[t].tag = "Ok"
      /\ \A i \in 1..Len(t_res["metadata"].val) :
            t_res["metadata"].val[i].name \in t_res["tree"].val
              => ~t_res["metadata"].val[i].is_root_pkg)
       => /\ result.tag = "Err"
          /\ result.error = "BuildError::FailedMetadataFetching"
          /\ result.report[1].error = "PkgListFromCargoMetadataError::RootPackageMissing"
  /\ pc \in {"cache", "scan", "pin", "done"}
       => \E i \in 1..Len(package_list) : package_list[i].is_root_pkg

\* the graph walk gave a list with the root package, the tree output did
\* not have the root's name, and the run failed with RootPackageMissing
C19_Witness ==
  /\ pc = "failed"
  /\ \A t \in Threads : t_pc[t] = "joined" /\ t_res[t].tag = "Ok"
  /\ \E i \in 1..Len(t_res["metadata"].val) : t_res["metadata"].val[i].is_root_pkg
  /\ \E i \in 1..Len(t_res["metadata"].val) :
        t_res["metadata"].val[i].name \in t_res["tree"].val
  /\ \A i \in 1..Len(t_res["metadata"].val) :
        t_res["metadata"].val[i].is_root_pkg
          => t_res["metadata"].val[i].name \notin t_res["tree"].val
  /\ result.report[1].error = "PkgListFromCargoMetadataError::RootPackageMissing"

\* C20: PackageList::from_encoded of an empty buffer returns
\* UnpackError::Empty, and so never Ok with an empty list.
C20_EmptyBufferIsAnError ==
  (d_pc = "done" /\ d_bytes = <<>>)
    => /\ d_result.tag # "Ok"
       /\ d_result = DecodeFailed("UnpackError::Empty")

\* the empty buffer was decoded and the call returned an error
C20_Witness ==
  /\ d_pc = "done"
  /\ Len(d_bytes) = 0
  /\ d_result.tag = "Err"
  /\ d_result.error = "UnpackError::Empty"

C22_RebuildIsIdempotent ==
  Len(b_results) = 2
    => /\ b_results[2].tag = "Ok"
       /\ Len(b_results[2].list) = Len(b_results[1].list)
       /\ \A i \in 1..Len(b_results[1].list) :
             /\ b_results[2].list[i].name = b_results[1].list[i].name
             /\ b_results[2].list[i].version = b_results[1].list[i].version
             /\ b_results[2].list[i].name_version = b_results[1].list[i].name_version
             /\ b_results[2].list[i].license_identifier = b_results[1].list[i].license_identifier
             /\ b_results[2].list[i].is_root_pkg = b_results[1].list[i].is_root_pkg
             /\ b_results[2].list[i].license_text = b_results[1].list[i].license_text

\* the step a fetch thread that has not finished can take
C23_FetchStep(t) == ExecCargoSingle(t) \/ ExecCargoNoDirective(t) \/ ThreadFinish(t)

\* C23 (as claimed): both fetches are started together; as long as one has
\* not finished it can go on, whatever became of the other; the run leaves
\* the fetch phase only when both have finished; and what package_list
\* returns is determined by what the two fetches returned.
C23_BothFetchesFinish ==
  /\ \A t \in Threads : t_pc[t] \notin {"done", "joined"} => ENABLED C23_FetchStep(t)
  /\ pc # "fetch" => \A t \in Threads : t_pc[t] \in {"done", "joined"}
  /\ pc = "cache" =>
        /\ \A t \in Threads : t_res[t].tag = "Ok"
        /\ package_list =
             SelectSeq(t_res["metadata"].val, LAMBDA e : e.name \in t_res["tree"].val)
  /\ (pc = "failed" /\ \A t \in Threads : t_pc[t] = "joined" /\ t_res[t].tag # "Running")
        => \/ \E t \in Threads : t_res[t].tag # "Ok"
           \/ \A i \in 1..Len(t_res["metadata"].val) :
                 t_res["metadata"].val[i].is_root_pkg
                   => t_res["metadata"].val[i].name \notin t_res["tree"].val

\* C24: when the root id the metadata declares is no node of the resolve
\* graph, the graph walk finds nothing (the metadata fetch returns no
\* package, or an error), and the run fails with an error: it never goes on
\* with a list, with or without packages.
C24_RootNotInGraphFails ==
  root_in_graph = "no"
    => /\ t_res["metadata"].tag \in {"Ok", "Err"}
       /\ t_res["metadata"].tag = "Ok" => t_res["metadata"].val = <<>>
       /\ pc \in {"fetch", "failed"}
       /\ pc = "failed"
            => /\ result.tag = "Err"
               /\ result.error = "BuildError::FailedMetadataFetching"

\* the root id was no node of the graph, both fetches succeeded, the
\* metadata fetch with an empty list, and the run failed for want of a root
C24_Witness ==
  /\ root_in_graph = "no"
  /\ pc = "failed"
  /\ \A t \in Threads : t_pc[t] = "joined" /\ t_res[t].tag = "Ok"
  /\ Len(t_res["metadata"].val) = 0
  /\ t_res["tree"].val # {}
  /\ result.report[1].error = "PkgListFromCargoMetadataError::RootPackageMissing"

\* the first whitespace-delimited field of a line that is not blank
C25_FirstField(line) ==
  LET ws(c) == c \in {" ", "\t"}
      first == CHOOSE i \in 1..Len(line) : ~ws(line[i]) /\ \A j \in 1..(i - 1) : ws(line[j])
      end == CHOOSE k \in first..Len(line) :
                /\ \A j \in first..k : ~ws(line[j])
                /\ k = Len(line) \/ ws(line[k + 1])
  IN  SubSeq(line, first, end)

\* C25 (as claimed): the name set has, for every line of the output that is
\* not blank, the first whitespace-delimited field of the line, and nothing
\* else; blank lines give nothing and a repeated name is one element.
C25_FirstWhitespaceField ==
  (u_pc = "done" /\ u_stdout.utf8)
    => /\ u_result.tag = "Ok"
       /\ u_result.val =
            {C25_FirstField(u_stdout.lines[i]) :
               i \in {k \in 1..Len(u_stdout.lines) :
                        \E j \in 1..Len(u_stdout.lines[k]) :
                           u_stdout.lines[k][j] \notin {" ", "\t"}}}

\* the packages of the list whose name_version the loaded cache has, and
\* has without a license text
C26_CachedWithoutText(list, cache) ==
  {i \in 1..Len(list) :
     /\ CacheHits(cache, list[i].name_version) # {}
     /\ \A k \in CacheHits(cache, list[i].name_version) : cache[k].license_text = None}

\* the packages of the list that were restored without a license text
C26_RestoredWithoutText(list) ==
  {i \in 1..Len(list) : list[i].restored_from_cache /\ list[i].license_text = None}

\* C26: a package whose name_version is in the loaded cache without a
\* license text leaves the cache step with restored_from_cache = TRUE and no
\* text; the scan reads no folder for such a package and leaves it without
\* a text, also when a source root has a license for it; and unless it is
\* the root it is returned like that.
C26_EmptyCacheEntrySticks ==
  /\ [][(pc = "cache" /\ pc' = "scan" /\ out_dir'.looked /\ CacheLoads[out_dir'].state = "Ok")
          => \A i \in C26_CachedWithoutText(package_list, CacheLoads[out_dir'].cache) :
                i \in C26_RestoredWithoutText(package_list')]_vars
  /\ [][(pc = "scan" /\ pc' # "scan")
          => \A i \in C26_RestoredWithoutText(package_list) :
                /\ package_list[i].name_version \notin ScanReads(package_list, registry_src')
                /\ i \in C26_RestoredWithoutText(package_list')]_vars
  /\ [][(pc = "pin" /\ pc' = "done")
          => \A i \in C26_RestoredWithoutText(package_list) :
                i # root_pos'
                  => \E k \in 2..Len(package_list') :
                        /\ package_list'[k] = package_list[i]
                        /\ package_list'[k].license_text = None]_vars

\* after the scan: a package other than the root that was restored from the
\* cache without a license text and still has none, although a source root
\* that was scanned has a folder with a license file for it
C26_Witness ==
  /\ pc = "pin"
  /\ registry_src.state = "Ok"
  /\ \E i \in 1..Len(package_list) :
        /\ ~package_list[i].is_root_pkg
        /\ package_list[i].restored_from_cache
        /\ package_list[i].license_text = None
        /\ \E r \in 1..Len(registry_src.roots) :
              \E k \in 1..Len(registry_src.roots[r].dirs) :
                 /\ registry_src.roots[r].readable
                 /\ registry_src.roots[r].dirs[k].folder_name = package_list[i].name_version
                 /\ LicenseTexts[registry_src.roots[r].dirs[k].folder].val # None

\* ---- C27 ----
\* a package without the two fields the rest of the run may write
C27_Identity(package) ==
  [package EXCEPT !.license_text = None, !.restored_from_cache = FALSE]

\* how often a package, taken without the two fields, is in a list
C27_Count(list, package) ==
  Cardinality({i \in 1..Len(list) : C27_Identity(list[i]) = C27_Identity(package)})

\* one list is a permutation of the other, license_text and
\* restored_from_cache aside
C27_Permutation(before, after) ==
  /\ Len(after) = Len(before)
  /\ \A i \in 1..Len(before) : C27_Count(after, before[i]) = C27_Count(before, before[i])

\* C27: the list package_list_with_licenses returns is a permutation of the
\* list package_list returned: the cache step, the license scan and the
\* pinning of the root with the sort each leave a list with the same
\* packages, as often as before, that differ at most in license_text and
\* restored_from_cache.
C27_ListIsPermutation ==
  [][(pc \in {"cache", "scan", "pin"}) => C27_Permutation(package_list, package_list')]_vars

\* a run returned a list of three packages or more in which the root was
\* swapped to the front, a package was restored from the cache and another
\* one got its text from the scan
C27_Witness ==
  /\ pc = "done"
  /\ root_pos > 1
  /\ Len(package_list) >= 3
  /\ \E i \in 2..Len(package_list) : package_list[i].restored_from_cache
  /\ \E i \in 2..Len(package_list) :
        ~package_list[i].restored_from_cache /\ package_list[i].license_text # None

\* ---- C28 ----
\* C28: when populate_with_cache returns an error (NotBuildScript, Invalid or
\* ReadError) the list it was given is unchanged: the list after the cache
\* step is the list before it, in every field of every package.
C28_CacheErrorLeavesList ==
  [][(pc = "cache" /\ cfg_cache /\ out_dir'.looked /\ CacheLoads[out_dir'].state # "Ok")
       => /\ CacheLoads[out_dir'].state \in {"NotBuildScript", "Invalid", "ReadError"}
          /\ package_list' = package_list]_vars

\* the cache step has just failed to read a cache file that exists, for a
\* list of two packages or more
C28_Witness ==
  /\ pc = "failed"
  /\ out_dir.looked
  /\ CacheLoads[out_dir].state = "ReadError"
  /\ Len(package_list) >= 2
  /\ \A i \in 1..Len(package_list) :
        ~package_list[i].restored_from_cache /\ package_list[i].license_text = None

\* ---- C29 ----
\* C29: when <cargo_home>/registry/src does not exist or is not a directory,
\* populate_package_list_licenses fails with RegistrySrc and the run with
\* FailedLicenseFetch, whatever the list is: also when every package was
\* restored from the cache and none is left to scan for.
C29_NoRegistryFailsTheRun ==
  [][(pc = "scan" /\ registry_src'.state \in {"DoesNotExist", "IsNotAFolder"})
       => /\ pc' = "failed"
          /\ result'.tag = "Err"
          /\ result'.error = "BuildError::FailedLicenseFetch"
          /\ result'.report =
                <<[error |-> "SrcRegistryInferenceError::" \o registry_src'.state,
                   directive |-> NoDirective,
                   contexts |-> <<"LicenseFetchError::RegistrySrc",
                                  "BuildError::FailedLicenseFetch">>]>>
          /\ package_list' = package_list]_vars

\* a run failed on a registry that does not exist although every package of
\* its list had been restored from the cache
C29_Witness ==
  /\ pc = "failed"
  /\ registry_src.state = "DoesNotExist"
  /\ result.error = "BuildError::FailedLicenseFetch"
  /\ Len(package_list) >= 2
  /\ \A i \in 1..Len(package_list) : package_list[i].restored_from_cache

\* ---- C30 ----
\* C30: exec_cargo with an empty directive list and debug assertions off
\* starts no process and returns an error whose only entry is
\* ExecCargoError::FailedExecution, of no directive; it never returns an
\* output.
C30_EmptyListFails ==
  \A t \in Threads :
    (cargo_directives = <<>> /\ ~debug_assertions) =>
      /\ t_log[t] = <<>>
      /\ t_pos[t] = 0
      /\ t_exec[t].tag \notin {"Ok", "Panic"}
      /\ t_pc[t] = "returned" =>
            /\ t_exec[t].tag = "Err"
            /\ t_exec[t].err = <<[error |-> "ExecCargoError::FailedExecution",
                                  directive |-> NoDirective,
                                  contexts |-> <<>>]>>

\* exec_cargo has returned for an empty directive list without debug
\* assertions
C30_Witness ==
  /\ cargo_directives = <<>>
  /\ ~debug_assertions
  /\ \E t \in Threads : t_pc[t] = "returned" /\ t_exec[t].tag = "Err" /\ t_log[t] = <<>>

====
